---- MODULE Spec2Model ----
(***************************************************************************)
(* A model of techon: a small stack language.  The Machine of              *)
(* runner/state.go (address map, variable list, function table and         *)
(* evaluation stack) is the state; every statement handler of the          *)
(* execution engine is an operator on machine records, translated from     *)
(* its Go code, and one action executes one statement through exec.        *)
(***************************************************************************)
EXTENDS Integers, Sequences, FiniteSets, TLC

VARIABLES
    Addresses,  \* Machine.Addresses : name -> base address
    Variables,  \* Machine.Variables : sequence of [Name, Size, Data]
    Functions,  \* Machine.Functions : name -> FunctionStatement
    Stack,      \* Machine.Stack     : bottom .. top
    stackNil,   \* Machine.Stack is Go's nil slice: nothing was appended yet
    err,        \* the error returned by Machine.Execute ("" = nil)
    last,       \* history: the statement handed to the last Execute
    watch,      \* history: the address whose stores are recorded (-1: none)
    stored,     \* history: <<v>> when the last STORE to watch stored v, else <<>>
    input,      \* the text on standard input, as a sequence of characters
    prog,       \* the Program returned by Parse
    phase,      \* where main is: "parse", "exec", "done" or "failed"; "feed"
                \* when the statements are handed to Execute one by one
    pc,         \* index in prog of the next statement of the Program loop
    out,        \* the characters main wrote to standard output
    loop,       \* the WHILE followed step by step: its body, the number of
                \* times the body was started, and (history) the conditions
                \* it popped
    reader      \* a Parser whose scan and unscan are called one by one: p,
                \* and (history) the call made last, the token it returned,
                \* the tokens read from the scanner and those pushed back

machineVars == <<Addresses, Variables, Functions, Stack>>
mainVars == <<input, prog, phase, pc, out>>
vars == <<Addresses, Variables, Functions, Stack, err, last, watch, stored,
          input, prog, phase, pc, out, loop, stackNil, reader>>

----------------------------------------------------------------------------
(* Bounds of the exploration.                                              *)

MaxStack == 3   \* deepest stack kept between two statements
MemStack == 2   \* the same, in the runs that exercise the memory
CtlStack == 2   \* the same, in the runs that exercise calls and IF
LoopStack == 3  \* the same, in the runs that follow a WHILE step by step
MaxInt   == 3   \* largest magnitude of a value kept between two statements
MaxLit   == 2   \* largest literal pushed
MaxCells == 2   \* largest cell count of one declaration
MaxMem   == 2   \* most cells declared in the runs that exercise the memory
MaxDepth == 3   \* deepest nesting of bodies followed inside one statement
MaxIter  == 3   \* most iterations of one WHILE followed
MaxFrags == 3   \* most fragments of a generated program text
GrowStack == 2  \* deepest stack kept, in the runs that follow the variables
GrowMem  == 2   \* most cells declared in these runs
GrowInt  == 1   \* largest value kept in these runs

----------------------------------------------------------------------------
(* Errors.  NoErr is Go's nil error; a Panic* value is a runtime panic of   *)
(* the Go program, which ends the process like an error does.  Bound is not *)
(* an outcome of the program: it marks an execution that leaves the bounds  *)
(* above, and the actions do not take such a step.                          *)

NoErr == ""
Bound == "BOUND"
PanicDivide == "panic: runtime error: integer divide by zero"

ErrResolveAddr == "could not resolve address"
ErrResolveIdent == "cannot resolve identifier"
ErrRedeclareVar == "cannot redeclare variable"
ErrVarIsFunc == "cannot declare variable, function already exists with that name"
ErrFuncIsVar == "cannot define function, variable with this name already exists"
ErrRedefineFunc == "cannot redefine function"
ErrMathDepth == "cannot perform math operation, stack does not have 2 items"
ErrDropEmpty == "cannot drop, stack empty"
ErrDupEmpty == "cannot dup, stack empty"
ErrSwapDepth == "cannot perform swap operation, stack does not have 2 items"
ErrCompareDepth == "cannot perform compare operation, stack does not have 2 items"
ErrGetEmpty == "cannot perform if, stack empty"
ErrStoreDepth == "cannot perform store operation, stack does not have 2 items"
ErrIfEmpty == "cannot perform if, stack empty"
ErrWhileEmpty == "cannot perform while, stack empty"
ErrInvalidVariable == "invalid variable"

----------------------------------------------------------------------------
(* Helpers on sequences and maps.                                          *)

Fail(m, e) == [m EXCEPT !.err = e]

Range(s) == {s[i] : i \in DOMAIN s}

\* The one element of a singleton.  A local value v of the code, set to e
\* and used in b, is written Only({b : v \in {e}}): e is computed once,
\* as the code computes it, however often b reads v.
Only(S) == CHOOSE x \in S : TRUE

Front(s, n) == SubSeq(s, 1, Len(s) - n)

MapSet(f, k, v) == [x \in (DOMAIN f) \cup {k} |-> IF x = k THEN v ELSE f[x]]

Zeros(n) == [i \in 1..n |-> 0]

\* Go's / and % on int: the quotient truncates toward zero and the
\* remainder takes the sign of the dividend.
Abs(a) == IF a < 0 THEN -a ELSE a
GoDiv(a, b) == IF (a < 0) = (b < 0) THEN Abs(a) \div Abs(b) ELSE -(Abs(a) \div Abs(b))
GoMod(a, b) == a - b * GoDiv(a, b)

----------------------------------------------------------------------------
(* The scanner.  The source text is a sequence of characters; Eof is the   *)
(* rune(0) that read returns at the end of the text.  un tells whether the *)
(* reader still holds a rune to unread: bufio's UnreadRune succeeds only   *)
(* directly after a successful ReadRune, and its error is dropped by       *)
(* unread, which then leaves the reader where it is.                       *)

Eof == ""

LowerCase == <<"a", "b", "c", "d", "e", "f", "g", "h", "i", "j", "k", "l", "m",
               "n", "o", "p", "q", "r", "s", "t", "u", "v", "w", "x", "y", "z">>
UpperCase == <<"A", "B", "C", "D", "E", "F", "G", "H", "I", "J", "K", "L", "M",
               "N", "O", "P", "Q", "R", "S", "T", "U", "V", "W", "X", "Y", "Z">>
Digits == <<"0", "1", "2", "3", "4", "5", "6", "7", "8", "9">>

isWhitespace(ch) == ch \in {" ", "\t", "\n"}
isLetter(ch) == \E i \in DOMAIN LowerCase : ch = LowerCase[i] \/ ch = UpperCase[i]
isDigit(ch) == \E i \in DOMAIN Digits : ch = Digits[i]

NewScanner(src) == [src |-> src, pos |-> 1, un |-> FALSE]

\* read and the reader after it
readRune(s) == IF s.pos > Len(s.src) THEN Eof ELSE s.src[s.pos]
afterRead(s) == IF s.pos > Len(s.src) THEN [s EXCEPT !.un = FALSE]
                ELSE [s EXCEPT !.pos = s.pos + 1, !.un = TRUE]

unread(s) == IF s.un THEN [s EXCEPT !.pos = s.pos - 1, !.un = FALSE] ELSE s

ToUpperRune(ch) ==
    IF \E i \in DOMAIN LowerCase : ch = LowerCase[i]
    THEN UpperCase[CHOOSE i \in DOMAIN LowerCase : ch = LowerCase[i]]
    ELSE ch

ToUpper(str) == [i \in DOMAIN str |-> ToUpperRune(str[i])]

\* The for loops of scanWhitespace, scanIdent and scanNumber, which differ
\* in the runes they go on with.
goesOn(what, ch) ==
    CASE what = "WS" -> isWhitespace(ch)
      [] what = "Ident" -> isLetter(ch) \/ isDigit(ch) \/ ch = "_"
      [] what = "Number" -> isDigit(ch)

RECURSIVE scanRun(_, _, _)
scanRun(s, buf, what) ==
    Only({ IF ch = Eof THEN [s |-> s1, lit |-> buf]
           ELSE IF ~goesOn(what, ch) THEN [s |-> unread(s1), lit |-> buf]
           ELSE scanRun(s1, Append(buf, ch), what)
           : ch \in {readRune(s)}, s1 \in {afterRead(s)} })

scanWhitespace(s) ==
    Only({ [tok |-> "WS", lit |-> r.lit, s |-> r.s]
           : r \in {scanRun(afterRead(s), <<readRune(s)>>, "WS")} })

Keywords ==
    {<<"VARIABLE", "Variable">>, <<"CELLS", "Cells">>, <<"IF", "If">>,
     <<"ELSE", "Else">>, <<"THEN", "Then">>, <<"WHILE", "While">>,
     <<"REPEAT", "Repeat">>, <<"QUIT", "Quit">>, <<"MOD", "Modulus">>,
     <<"DROP", "Drop">>, <<"DUP", "Dup">>, <<"SWAP", "Swap">>}

\* A Go string as the sequence of its characters.
Chars(str) ==
    CASE str = "VARIABLE" -> <<"V", "A", "R", "I", "A", "B", "L", "E">>
      [] str = "CELLS" -> <<"C", "E", "L", "L", "S">>
      [] str = "IF" -> <<"I", "F">>
      [] str = "ELSE" -> <<"E", "L", "S", "E">>
      [] str = "THEN" -> <<"T", "H", "E", "N">>
      [] str = "WHILE" -> <<"W", "H", "I", "L", "E">>
      [] str = "REPEAT" -> <<"R", "E", "P", "E", "A", "T">>
      [] str = "QUIT" -> <<"Q", "U", "I", "T">>
      [] str = "MOD" -> <<"M", "O", "D">>
      [] str = "DROP" -> <<"D", "R", "O", "P">>
      [] str = "DUP" -> <<"D", "U", "P">>
      [] str = "SWAP" -> <<"S", "W", "A", "P">>

scanIdent(s) ==
    Only({ IF \E k \in Keywords : Chars(k[1]) = ToUpper(r.lit)
           THEN [tok |-> (CHOOSE k \in Keywords : Chars(k[1]) = ToUpper(r.lit))[2],
                 lit |-> r.lit, s |-> r.s]
           ELSE [tok |-> "Ident", lit |-> r.lit, s |-> r.s]
           : r \in {scanRun(afterRead(s), <<readRune(s)>>, "Ident")} })

scanNumber(s) ==
    Only({ [tok |-> "Number", lit |-> r.lit, s |-> r.s]
           : r \in {scanRun(afterRead(s), <<readRune(s)>>, "Number")} })

scanComparator(s) ==
    Only({ IF ch = "=" THEN [tok |-> "EQ", lit |-> <<ch>>, s |-> s1]
           ELSE IF next # "=" /\ ch = "<"
                THEN [tok |-> "LT", lit |-> <<ch>>, s |-> unread(s2)]
           ELSE IF next # "=" /\ ch = ">"
                THEN [tok |-> "GT", lit |-> <<ch>>, s |-> unread(s2)]
           ELSE IF ch = "<" THEN [tok |-> "LTE", lit |-> <<ch, next>>, s |-> s2]
           ELSE IF ch = ">" THEN [tok |-> "GTE", lit |-> <<ch, next>>, s |-> s2]
           ELSE [tok |-> "ILLEGAL", lit |-> <<ch, next>>, s |-> s2]
           : ch \in {readRune(s)}, s1 \in {afterRead(s)},
             next \in {readRune(afterRead(s))},
             s2 \in {afterRead(afterRead(s))} })

RECURSIVE scanCommentRun(_, _)
scanCommentRun(s, buf) ==
    Only({ IF ch = Eof THEN [s |-> s1, lit |-> buf]
           ELSE IF ch = ")" THEN [s |-> s1, lit |-> Append(buf, ch)]
           ELSE scanCommentRun(s1, Append(buf, ch))
           : ch \in {readRune(s)}, s1 \in {afterRead(s)} })

scanComment(s) ==
    Only({ [tok |-> "Comment", lit |-> r.lit, s |-> r.s]
           : r \in {scanCommentRun(afterRead(s), <<readRune(s)>>)} })

SingleRuneToks ==
    {<<"+", "Plus">>, <<"*", "Multiply">>, <<"/", "Divide">>,
     <<":", "StartFunc">>, <<";", "EndFunc">>, <<"@", "Get">>, <<"!", "Store">>}

\* The branch of Scan for "-": the rune after it is read and unread, and
\* a digit there is to be unread with the "-" for scanNumber.
scanMinus(ch, s1) ==
    Only({ IF isDigit(next) THEN scanNumber(unread(s2))
           ELSE [tok |-> "Minus", lit |-> <<ch>>, s |-> s2]
           : next \in {readRune(s1)}, s2 \in {unread(afterRead(s1))} })

\* Scanner.Scan: [tok, lit, s].
Scan(s) ==
    Only({ IF isWhitespace(ch) THEN scanWhitespace(unread(s1))
           ELSE IF isDigit(ch) THEN scanNumber(unread(s1))
           ELSE IF ch = "-" THEN scanMinus(ch, s1)
           ELSE IF isLetter(ch) THEN scanIdent(unread(s1))
           ELSE IF ch = "(" THEN scanComment(unread(s1))
           ELSE IF ch = Eof THEN [tok |-> "EOF", lit |-> <<>>, s |-> s1]
           ELSE IF \E k \in SingleRuneToks : k[1] = ch
                THEN [tok |-> (CHOOSE k \in SingleRuneToks : k[1] = ch)[2],
                      lit |-> <<ch>>, s |-> s1]
           ELSE IF ch \in {"<", ">", "="} THEN scanComparator(unread(s1))
           ELSE [tok |-> "ILLEGAL", lit |-> <<ch>>, s |-> s1]
           : ch \in {readRune(s)}, s1 \in {afterRead(s)} })

----------------------------------------------------------------------------
(* The statements handed to the machine.  Names and comment bodies are     *)
(* sequences of characters, as the lexemes they come from.                 *)

NameX == <<"x">>
NameY == <<"y">>
NameZ == <<"z">>
Names == {NameX, NameY}
DeclNames == {NameX, NameY, NameZ}

\* The literals pushed: the scanner gives a number without its sign.
Lits == 0..MaxLit

MathToks == {"Minus", "Plus", "Multiply", "Divide", "Modulus"}
CompareToks == {"EQ", "LT", "GT", "LTE", "GTE"}

Declaration(name, cells) == [kind |-> "Declaration", Name |-> name, Cells |-> cells]
FunctionDecl(name, body) == [kind |-> "Function", Name |-> name, Body |-> body]
PushNumber(n) == [kind |-> "PushNumber", Number |-> n]
IdentifierCall(name) == [kind |-> "IdentifierCall", Identifier |-> name]
MathOperation(tok) == [kind |-> "MathOperation", tok |-> tok]
CompareOperation(tok) == [kind |-> "CompareOperation", tok |-> tok]
Drop == [kind |-> "Drop"]
Dup == [kind |-> "Dup"]
Swap == [kind |-> "Swap"]
Get == [kind |-> "Get"]
Store == [kind |-> "Store"]
Quit == [kind |-> "Quit"]
Comment(body) == [kind |-> "Comment", Body |-> body]
If(body, elseBody) == [kind |-> "If", Body |-> body, ElseBody |-> elseBody]
While(body) == [kind |-> "While", Body |-> body]

----------------------------------------------------------------------------
(* The parser.  A parser record holds the scanner, the ring of the tokens  *)
(* read and the two cursors; every parse function returns the parser after *)
(* it, the statement (Nil for none) and the error.                         *)

BufSize == 100

Nil == [kind |-> "nil"]

ErrExpectedVarIdent == "expected variable identifier"
ErrExpectedFuncIdent == "expected function identifier"
ErrArrayCells == "array cannot have less than 1 cell"
ErrAlreadyInElse == "already in else"
ErrInvalidToken == "found invalid token: "
ErrAtoi == "strconv.Atoi: parsing: invalid syntax"
PanicSlice == "panic: runtime error: slice bounds out of range"

NewParser(src) ==
    [s |-> NewScanner(src),
     buf |-> [i \in 0..(BufSize - 1) |-> [tok |-> "ILLEGAL", lit |-> <<>>]],
     actual |-> 0, latest |-> 0]

\* The loop of scan that drops the whitespace tokens.
RECURSIVE scanNoWS(_)
scanNoWS(s) ==
    Only({ IF t.tok = "WS" THEN scanNoWS(t.s) ELSE t : t \in {Scan(s)} })

\* The branch of scan that reads a new token and records it in the ring.
scanFresh(p) ==
    Only({ [tok |-> t.tok, lit |-> t.lit,
            p |-> [p EXCEPT !.s = t.s,
                            !.buf[p.actual] = [tok |-> t.tok, lit |-> t.lit],
                            !.latest = l,
                            !.actual = l]]
           : t \in {scanNoWS(p.s)}, l \in {(p.latest + 1) % BufSize} })

\* Parser.scan: [tok, lit, p].
scan(p) ==
    IF p.actual # p.latest
    THEN [tok |-> p.buf[p.actual].tok, lit |-> p.buf[p.actual].lit,
          p |-> [p EXCEPT !.actual = (p.actual + 1) % BufSize]]
    ELSE scanFresh(p)

\* unscan stopping at slot 0 where the code goes round to the last slot.
unscanNoWrap(p) ==
    IF p.actual - 1 < 0 THEN [p EXCEPT !.actual = 0]
    ELSE [p EXCEPT !.actual = p.actual - 1]

unscan(p) ==
    IF p.actual - 1 < 0 THEN [p EXCEPT !.actual = BufSize - 1]
    ELSE [p EXCEPT !.actual = p.actual - 1]

DigitValue(ch) == (CHOOSE i \in DOMAIN Digits : Digits[i] = ch) - 1

RECURSIVE digitsValue(_, _, _)
digitsValue(str, i, acc) ==
    IF i > Len(str) THEN acc
    ELSE digitsValue(str, i + 1, acc * 10 + DigitValue(str[i]))

\* strconv.Atoi: an optional sign and decimal digits; [ok, n].
Atoi(str) ==
    LET signed == Len(str) > 0 /\ str[1] \in {"+", "-"}
        digits == IF signed THEN SubSeq(str, 2, Len(str)) ELSE str
    IN  IF Len(digits) = 0 \/ \E i \in DOMAIN digits : ~isDigit(digits[i])
        THEN [ok |-> FALSE, n |-> 0]
        ELSE [ok |-> TRUE,
              n |-> IF signed /\ str[1] = "-" THEN -digitsValue(digits, 1, 0)
                    ELSE digitsValue(digits, 1, 0)]

Parsed(p, st) == [p |-> p, st |-> st, err |-> NoErr]
ParseError(p, e) == [p |-> p, st |-> Nil, err |-> e]

\* declarationOf with the two unscans in the branch of the cell count.
declarationOfUnscansCells(t1, t2, t3) ==
    IF t2.tok = "Number" /\ t3.tok = "Cells"
    THEN Only({ IF ~cells.ok THEN ParseError(t3.p, ErrAtoi)
                ELSE IF cells.n <= 0 THEN ParseError(t3.p, ErrArrayCells)
                ELSE Parsed(unscan(unscan(t3.p)), Declaration(t1.lit, cells.n))
                : cells \in {Atoi(t2.lit)} })
    ELSE Parsed(t3.p, Declaration(t1.lit, 1))

\* declarationOf with one unscan where the code has two.
declarationOfOneUnscan(t1, t2, t3) ==
    IF t2.tok = "Number" /\ t3.tok = "Cells"
    THEN Only({ IF ~cells.ok THEN ParseError(t3.p, ErrAtoi)
                ELSE IF cells.n <= 0 THEN ParseError(t3.p, ErrArrayCells)
                ELSE Parsed(t3.p, Declaration(t1.lit, cells.n))
                : cells \in {Atoi(t2.lit)} })
    ELSE Parsed(unscan(t3.p), Declaration(t1.lit, 1))

\* What parseVariableDeclaration does once it has the identifier t1 and the
\* two tokens after it, t2 and t3.
declarationOf(t1, t2, t3) ==
    IF t2.tok = "Number" /\ t3.tok = "Cells"
    THEN Only({ IF ~cells.ok THEN ParseError(t3.p, ErrAtoi)
                ELSE IF cells.n <= 0 THEN ParseError(t3.p, ErrArrayCells)
                ELSE Parsed(t3.p, Declaration(t1.lit, cells.n))
                : cells \in {Atoi(t2.lit)} })
    ELSE Parsed(unscan(unscan(t3.p)), Declaration(t1.lit, 1))

parseVariableDeclaration(p0) ==
    Only({ IF t1.tok # "Ident" THEN ParseError(t1.p, ErrExpectedVarIdent)
           ELSE Only({ Only({ declarationOf(t1, t2, t3) : t3 \in {scan(t2.p)} })
                       : t2 \in {scan(t1.p)} })
           : t1 \in {scan(scan(p0).p)} })

parsePushNumber(p0) ==
    Only({ Only({ IF ~nr.ok THEN ParseError(t.p, ErrAtoi)
                  ELSE Parsed(t.p, PushNumber(nr.n))
                  : nr \in {Atoi(t.lit)} })
           : t \in {scan(p0)} })

parseIdentifierCall(p0) ==
    Only({ Parsed(t.p, IdentifierCall(t.lit)) : t \in {scan(p0)} })

parseMathOperation(p0) ==
    Only({ Parsed(t.p, MathOperation(t.tok)) : t \in {scan(p0)} })

parseCompareOperation(p0) ==
    Only({ Parsed(t.p, CompareOperation(t.tok)) : t \in {scan(p0)} })

RECURSIVE parseCommon(_)
RECURSIVE ifLoop(_, _, _, _)
RECURSIVE whileLoop(_, _)

\* ifLoop taking a second ELSE for an error only when the else body has
\* statements.
ifLoopElseByLength(p0, body, elseBody, inElse) ==
    Only({ IF c.err # NoErr THEN ParseError(c.p, c.err)
           ELSE IF c.st # Nil
                THEN IF inElse
                     THEN ifLoop(c.p, body, Append(elseBody, c.st), inElse)
                     ELSE ifLoop(c.p, Append(body, c.st), elseBody, inElse)
           ELSE Only({ IF t.tok = "Then" THEN Parsed(t.p, If(body, elseBody))
                       ELSE IF t.tok = "Else"
                            THEN IF elseBody # <<>>
                                 THEN ParseError(t.p, ErrAlreadyInElse)
                                 ELSE ifLoop(t.p, body, elseBody, TRUE)
                       ELSE ParseError(t.p, ErrInvalidToken \o t.tok)
                       : t \in {scan(c.p)} })
           : c \in {parseCommon(p0)} })

\* The for loop of parseIfStatement: the two bodies so far, and whether
\* body points at the else body.
ifLoop(p0, body, elseBody, inElse) ==
    Only({ IF c.err # NoErr THEN ParseError(c.p, c.err)
           ELSE IF c.st # Nil
                THEN IF inElse
                     THEN ifLoop(c.p, body, Append(elseBody, c.st), inElse)
                     ELSE ifLoop(c.p, Append(body, c.st), elseBody, inElse)
           ELSE Only({ IF t.tok = "Then" THEN Parsed(t.p, If(body, elseBody))
                       ELSE IF t.tok = "Else"
                            THEN IF inElse THEN ParseError(t.p, ErrAlreadyInElse)
                                 ELSE ifLoop(t.p, body, elseBody, TRUE)
                       ELSE ParseError(t.p, ErrInvalidToken \o t.tok)
                       : t \in {scan(c.p)} })
           : c \in {parseCommon(p0)} })

parseIfStatement(p0) ==
    Only({ ifLoop(t.p, <<>>, <<>>, FALSE) : t \in {scan(p0)} })

\* The for loop of parseWhileStatement.
whileLoop(p0, body) ==
    Only({ IF c.err # NoErr THEN ParseError(c.p, c.err)
           ELSE IF c.st # Nil THEN whileLoop(c.p, Append(body, c.st))
           ELSE Only({ IF t.tok = "Repeat" THEN Parsed(t.p, While(body))
                       ELSE ParseError(t.p, ErrInvalidToken \o t.tok)
                       : t \in {scan(c.p)} })
           : c \in {parseCommon(p0)} })

parseWhileStatement(p0) ==
    Only({ whileLoop(t.p, <<>>) : t \in {scan(p0)} })

parseCommon(p0) ==
    Only({ CASE t.tok = "Number" -> parsePushNumber(unscan(t.p))
             [] t.tok = "Ident" -> parseIdentifierCall(unscan(t.p))
             [] t.tok \in MathToks -> parseMathOperation(unscan(t.p))
             [] t.tok \in CompareToks -> parseCompareOperation(unscan(t.p))
             [] t.tok = "Drop" -> Parsed(t.p, Drop)
             [] t.tok = "Dup" -> Parsed(t.p, Dup)
             [] t.tok = "Swap" -> Parsed(t.p, Swap)
             [] t.tok = "Comment" ->
                    IF Len(t.lit) < 2 THEN ParseError(t.p, PanicSlice)
                    ELSE Parsed(t.p, Comment(SubSeq(t.lit, 2, Len(t.lit) - 1)))
             [] t.tok = "Get" -> Parsed(t.p, Get)
             [] t.tok = "Store" -> Parsed(t.p, Store)
             [] t.tok = "If" -> parseIfStatement(unscan(t.p))
             [] t.tok = "While" -> parseWhileStatement(unscan(t.p))
             [] t.tok = "Quit" -> Parsed(t.p, Quit)
             [] OTHER -> Parsed(unscan(t.p), Nil)
           : t \in {scan(p0)} })

\* The for loop of parseFunc.
RECURSIVE funcLoop(_, _, _)
funcLoop(p0, name, body) ==
    Only({ IF c.err # NoErr THEN ParseError(c.p, c.err)
           ELSE IF c.st # Nil THEN funcLoop(c.p, name, Append(body, c.st))
           ELSE Only({ IF t.tok = "EndFunc"
                       THEN Parsed(t.p, FunctionDecl(name, body))
                       ELSE ParseError(t.p, ErrInvalidToken \o t.tok)
                       : t \in {scan(c.p)} })
           : c \in {parseCommon(p0)} })

parseFunc(p0) ==
    Only({ IF t1.tok # "Ident" THEN ParseError(t1.p, ErrExpectedFuncIdent)
           ELSE funcLoop(t1.p, t1.lit, <<>>)
           : t1 \in {scan(scan(p0).p)} })

RECURSIVE programLoop(_, _)

\* programItem going on after a token that starts nothing.
programItemSkips(t, sts) ==
    IF t.tok = "EOF" THEN [prog |-> sts, err |-> NoErr]
    ELSE IF t.tok = "Variable"
         THEN Only({ IF v.err # NoErr THEN [prog |-> <<>>, err |-> v.err]
                     ELSE programLoop(v.p, Append(sts, v.st))
                     : v \in {parseVariableDeclaration(unscan(t.p))} })
    ELSE IF t.tok = "StartFunc"
         THEN Only({ IF f.err # NoErr THEN [prog |-> <<>>, err |-> f.err]
                     ELSE programLoop(f.p, Append(sts, f.st))
                     : f \in {parseFunc(unscan(t.p))} })
    ELSE programLoop(t.p, sts)

\* The switch of parseProgram on the token that starts no common
\* statement; sts is prog.
programItem(t, sts) ==
    IF t.tok = "EOF" THEN [prog |-> sts, err |-> NoErr]
    ELSE IF t.tok = "Variable"
         THEN Only({ IF v.err # NoErr THEN [prog |-> <<>>, err |-> v.err]
                     ELSE programLoop(v.p, Append(sts, v.st))
                     : v \in {parseVariableDeclaration(unscan(t.p))} })
    ELSE IF t.tok = "StartFunc"
         THEN Only({ IF f.err # NoErr THEN [prog |-> <<>>, err |-> f.err]
                     ELSE programLoop(f.p, Append(sts, f.st))
                     : f \in {parseFunc(unscan(t.p))} })
    ELSE [prog |-> <<>>, err |-> ErrInvalidToken \o t.tok]

\* The for loop of parseProgram: [prog, err], prog being nil (<<>>) on an
\* error.
programLoop(p0, sts) ==
    Only({ IF c.err # NoErr THEN [prog |-> <<>>, err |-> c.err]
           ELSE IF c.st # Nil THEN programLoop(c.p, Append(sts, c.st))
           ELSE Only({ programItem(t, sts) : t \in {scan(c.p)} })
           : c \in {parseCommon(p0)} })

parseProgram(p0) == programLoop(p0, <<>>)

Parse(src) == parseProgram(NewParser(src))

----------------------------------------------------------------------------
(* The Machine.                                                            *)

\* NewMachine makes the two maps and leaves Variables and Stack nil.
NewMachine == [Addresses |-> <<>>, Variables |-> <<>>, Functions |-> <<>>,
               Stack |-> <<>>, StackNil |-> TRUE, err |-> NoErr]

\* declareVariable taking the size of the last variable for the new base.
declareVariableNoBase(m, st) ==
    LET v == [Name |-> st.Name, Size |-> st.Cells, Data |-> Zeros(st.Cells)]
        n == Len(m.Variables)
        addr == IF n > 0 THEN m.Variables[n].Size ELSE 0
    IN  IF v.Name \in DOMAIN m.Addresses THEN Fail(m, ErrRedeclareVar)
        ELSE IF v.Name \in DOMAIN m.Functions THEN Fail(m, ErrVarIsFunc)
        ELSE [m EXCEPT !.Addresses = MapSet(m.Addresses, v.Name, addr),
                       !.Variables = Append(m.Variables, v)]

\* declareVariable putting the new variable in front of the list.
declareVariableInFront(m, st) ==
    LET v == [Name |-> st.Name, Size |-> st.Cells, Data |-> Zeros(st.Cells)]
        n == Len(m.Variables)
        addr == IF n > 0
                THEN m.Addresses[m.Variables[n].Name] + m.Variables[n].Size
                ELSE 0
    IN  IF v.Name \in DOMAIN m.Addresses THEN Fail(m, ErrRedeclareVar)
        ELSE IF v.Name \in DOMAIN m.Functions THEN Fail(m, ErrVarIsFunc)
        ELSE [m EXCEPT !.Addresses = MapSet(m.Addresses, v.Name, addr),
                       !.Variables = <<v>> \o m.Variables]

\* function without the look-up of the name among the variables.
functionNoVariableCheck(m, st) ==
    IF st.Name \in DOMAIN m.Functions THEN Fail(m, ErrRedefineFunc)
    ELSE [m EXCEPT !.Functions = MapSet(m.Functions, st.Name, st)]

declareVariable(m, st) ==
    LET v == [Name |-> st.Name, Size |-> st.Cells, Data |-> Zeros(st.Cells)]
        n == Len(m.Variables)
        addr == IF n > 0
                THEN m.Addresses[m.Variables[n].Name] + m.Variables[n].Size
                ELSE 0
    IN  IF v.Name \in DOMAIN m.Addresses THEN Fail(m, ErrRedeclareVar)
        ELSE IF v.Name \in DOMAIN m.Functions THEN Fail(m, ErrVarIsFunc)
        ELSE [m EXCEPT !.Addresses = MapSet(m.Addresses, v.Name, addr),
                       !.Variables = Append(m.Variables, v)]

function(m, st) ==
    IF st.Name \in DOMAIN m.Addresses THEN Fail(m, ErrFuncIsVar)
    ELSE IF st.Name \in DOMAIN m.Functions THEN Fail(m, ErrRedefineFunc)
    ELSE [m EXCEPT !.Functions = MapSet(m.Functions, st.Name, st)]

pushNumber(m, st) == [m EXCEPT !.Stack = Append(m.Stack, st.Number),
                               !.StackNil = FALSE]

\* The loop of resolveVariable: v is assigned every element in turn, so it
\* is the matching variable after a break and the last variable (0 stands
\* for nil, when the list is empty) when the loop runs to its end.
RECURSIVE scanVariables(_, _, _, _)
scanVariables(vs, addr, i, caddr) ==
    IF i > Len(vs) THEN [v |-> Len(vs), caddr |-> caddr]
    ELSE IF caddr <= addr /\ addr < caddr + vs[i].Size
         THEN [v |-> i, caddr |-> caddr]
         ELSE scanVariables(vs, addr, i + 1, caddr + vs[i].Size)

\* Returns [ok, v, idx]: v is the index in m.Variables of the variable.
resolveVariable(m, addr) ==
    LET r == scanVariables(m.Variables, addr, 1, 0)
    IN  IF r.v = 0 \/ addr < r.caddr \/ addr >= r.caddr + m.Variables[r.v].Size
        THEN [ok |-> FALSE, v |-> 0, idx |-> 0]
        ELSE [ok |-> TRUE, v |-> r.v, idx |-> addr - r.caddr]

\* The pointer &v.Data[idx] is the pair (v, idx); Go indexes from 0.
resolveAddr(m, addr) == resolveVariable(m, addr)

mathResult(tok, op1, op2) ==
    CASE tok = "Minus" -> op1 - op2
      [] tok = "Plus" -> op1 + op2
      [] tok = "Multiply" -> op1 * op2
      [] tok = "Divide" -> GoDiv(op1, op2)
      [] tok = "Modulus" -> GoMod(op1, op2)
      [] OTHER -> 0

\* mathOperation with the operands taken in the opposite order.
mathOperationSwapped(m, st) ==
    IF Len(m.Stack) < 2 THEN Fail(m, ErrMathDepth)
    ELSE LET op1 == m.Stack[Len(m.Stack)]
             op2 == m.Stack[Len(m.Stack) - 1]
         IN  IF st.tok \in {"Divide", "Modulus"} /\ op2 = 0
             THEN Fail(m, PanicDivide)
             ELSE [m EXCEPT !.Stack = Append(Front(m.Stack, 2),
                                             mathResult(st.tok, op1, op2))]

mathOperation(m, st) ==
    IF Len(m.Stack) < 2 THEN Fail(m, ErrMathDepth)
    ELSE LET op1 == m.Stack[Len(m.Stack) - 1]
             op2 == m.Stack[Len(m.Stack)]
         IN  IF st.tok \in {"Divide", "Modulus"} /\ op2 = 0
             THEN Fail(m, PanicDivide)
             ELSE [m EXCEPT !.Stack = Append(Front(m.Stack, 2),
                                             mathResult(st.tok, op1, op2))]

drop(m, st) ==
    IF Len(m.Stack) < 1 THEN Fail(m, ErrDropEmpty)
    ELSE [m EXCEPT !.Stack = Front(m.Stack, 1)]

dup(m, st) ==
    IF Len(m.Stack) < 1 THEN Fail(m, ErrDupEmpty)
    ELSE [m EXCEPT !.Stack = Append(m.Stack, m.Stack[Len(m.Stack)])]

\* swap exchanging the second and third elements from the top.
swapBelow(m, st) ==
    IF Len(m.Stack) < 2 THEN Fail(m, ErrSwapDepth)
    ELSE LET idx1 == IF Len(m.Stack) > 2 THEN Len(m.Stack) - 2 ELSE 1
             idx2 == Len(m.Stack) - 1
         IN  [m EXCEPT !.Stack = [m.Stack EXCEPT ![idx1] = m.Stack[idx2],
                                                 ![idx2] = m.Stack[idx1]]]

swap(m, st) ==
    IF Len(m.Stack) < 2 THEN Fail(m, ErrSwapDepth)
    ELSE LET idx1 == Len(m.Stack) - 1
             idx2 == Len(m.Stack)
         IN  [m EXCEPT !.Stack = [m.Stack EXCEPT ![idx1] = m.Stack[idx2],
                                                 ![idx2] = m.Stack[idx1]]]

compareResult(tok, op1, op2) ==
    CASE tok = "EQ" -> op1 = op2
      [] tok = "LT" -> op1 < op2
      [] tok = "GT" -> op1 > op2
      [] tok = "LTE" -> op1 <= op2
      [] tok = "GTE" -> op1 >= op2
      [] OTHER -> FALSE

compare(m, st) ==
    IF Len(m.Stack) < 2 THEN Fail(m, ErrCompareDepth)
    ELSE LET op1 == m.Stack[Len(m.Stack) - 1]
             op2 == m.Stack[Len(m.Stack)]
             val == IF compareResult(st.tok, op1, op2) THEN 1 ELSE 0
         IN  [m EXCEPT !.Stack = Append(Front(m.Stack, 2), val)]

\* get with the address popped before it is resolved.
getPopsFirst(m, st) ==
    IF Len(m.Stack) < 1 THEN Fail(m, ErrGetEmpty)
    ELSE LET addr == m.Stack[Len(m.Stack)]
             popped == [m EXCEPT !.Stack = Front(m.Stack, 1)]
             ptr == resolveAddr(m, addr)
         IN  IF ~ptr.ok THEN Fail(popped, ErrResolveAddr)
             ELSE [m EXCEPT !.Stack = Append(popped.Stack,
                                             m.Variables[ptr.v].Data[ptr.idx + 1])]

get(m, st) ==
    IF Len(m.Stack) < 1 THEN Fail(m, ErrGetEmpty)
    ELSE LET addr == m.Stack[Len(m.Stack)]
             ptr == resolveAddr(m, addr)
         IN  IF ~ptr.ok THEN Fail(m, ErrResolveAddr)
             ELSE [m EXCEPT !.Stack = Append(Front(m.Stack, 1),
                                             m.Variables[ptr.v].Data[ptr.idx + 1])]

store(m, st) ==
    IF Len(m.Stack) < 2 THEN Fail(m, ErrStoreDepth)
    ELSE LET val == m.Stack[Len(m.Stack) - 1]
             addr == m.Stack[Len(m.Stack)]
             ptr == resolveAddr(m, addr)
         IN  IF ~ptr.ok THEN Fail(m, ErrResolveAddr)
             ELSE [m EXCEPT !.Variables[ptr.v].Data[ptr.idx + 1] = val,
                            !.Stack = Front(m.Stack, 2)]

\* strings.Split(s, " ") on a body held as a sequence of characters: the
\* pieces between the spaces, empty pieces included.
RECURSIVE splitFrom(_, _, _)
splitFrom(s, i, cur) ==
    IF i > Len(s) THEN <<cur>>
    ELSE IF s[i] = " " THEN <<cur>> \o splitFrom(s, i + 1, <<>>)
         ELSE splitFrom(s, i + 1, Append(cur, s[i]))

Split(s) == splitFrom(s, 1, <<>>)

WordDebug == <<"d", "e", "b", "u", "g">>
WordStack == <<"s", "t", "a", "c", "k">>
WordVar == <<"v", "a", "r">>

\* debugComments without the test for a missing name after "debug var".
debugCommentsNoName(m, st) ==
    LET parts == Split(st.Body)
    IN  IF Len(parts) < 2 \/ parts[1] # WordDebug THEN m
        ELSE IF parts[2] = WordStack THEN m
        ELSE IF parts[2] = WordVar
             THEN IF Len(parts) < 3 \/ parts[3] \notin DOMAIN m.Addresses
                  THEN Fail(m, ErrInvalidVariable)
                  ELSE IF ~resolveVariable(m, m.Addresses[parts[3]]).ok
                       THEN Fail(m, ErrResolveAddr)
                       ELSE m
             ELSE m

\* The two Fprint calls write to standard error only; the machine is
\* returned as it came unless the directive names an unknown variable.
debugComments(m, st) ==
    LET parts == Split(st.Body)
    IN  IF Len(parts) < 2 \/ parts[1] # WordDebug THEN m
        ELSE IF parts[2] = WordStack THEN m
        ELSE IF parts[2] = WordVar
             THEN IF Len(parts) < 3 THEN m
                  ELSE IF parts[3] \notin DOMAIN m.Addresses
                       THEN Fail(m, ErrInvalidVariable)
                       ELSE IF ~resolveVariable(m, m.Addresses[parts[3]]).ok
                            THEN Fail(m, ErrResolveAddr)
                            ELSE m
             ELSE m

RECURSIVE exec(_, _, _)
RECURSIVE execProgram(_, _, _, _)
RECURSIVE callBody(_, _, _, _)
RECURSIVE ifBody(_, _, _, _)
RECURSIVE whileBody(_, _, _, _)
RECURSIVE while(_, _, _, _)

\* case parser.Program of exec: the statements in order, up to the first
\* error.  i is the index of the next statement.
execProgram(m, st, i, d) ==
    IF i > Len(st) THEN m
    ELSE Only({ IF r.err # NoErr THEN r ELSE execProgram(r, st, i + 1, d)
                : r \in {exec(m, st[i], d)} })

\* callBody that goes on with the next statement of the body after an
\* error, which it returns at the end.
callBodyGoesOn(m, body, i, d) ==
    IF i > Len(body) THEN m
    ELSE Only({ IF r.err # NoErr
                THEN Fail(callBody([r EXCEPT !.err = NoErr], body, i + 1, d), r.err)
                ELSE callBody(r, body, i + 1, d)
                : r \in {exec(m, body[i], d)} })

\* The loop over fn.Body in indentifierCall.
callBody(m, body, i, d) ==
    IF i > Len(body) THEN m
    ELSE Only({ IF r.err # NoErr THEN r ELSE callBody(r, body, i + 1, d)
                : r \in {exec(m, body[i], d)} })

\* indentifierCall pushing, for a variable, the value of its first cell.
indentifierCallValue(m, st, d) ==
    IF st.Identifier \in DOMAIN m.Addresses
    THEN [m EXCEPT !.Stack =
              Append(m.Stack,
                     (CHOOSE v \in Range(m.Variables) :
                          v.Name = st.Identifier).Data[1]),
                   !.StackNil = FALSE]
    ELSE IF st.Identifier \in DOMAIN m.Functions
         THEN IF d = 0 THEN Fail(m, Bound)
              ELSE callBody(m, m.Functions[st.Identifier].Body, 1, d - 1)
         ELSE Fail(m, ErrResolveIdent)

\* indentifierCall running the body of a function on a stack of its own,
\* the values left on it being appended to the caller's stack at the return.
indentifierCallFramed(m, st, d) ==
    IF st.Identifier \in DOMAIN m.Addresses
    THEN [m EXCEPT !.Stack = Append(m.Stack, m.Addresses[st.Identifier]),
                   !.StackNil = FALSE]
    ELSE IF st.Identifier \in DOMAIN m.Functions
         THEN IF d = 0 THEN Fail(m, Bound)
              ELSE Only({ [r EXCEPT !.Stack = m.Stack \o r.Stack]
                          : r \in {callBody([m EXCEPT !.Stack = <<>>],
                                            m.Functions[st.Identifier].Body,
                                            1, d - 1)} })
         ELSE Fail(m, ErrResolveIdent)

indentifierCall(m, st, d) ==
    IF st.Identifier \in DOMAIN m.Addresses
    THEN [m EXCEPT !.Stack = Append(m.Stack, m.Addresses[st.Identifier]),
                   !.StackNil = FALSE]
    ELSE IF st.Identifier \in DOMAIN m.Functions
         THEN IF d = 0 THEN Fail(m, Bound)
              ELSE callBody(m, m.Functions[st.Identifier].Body, 1, d - 1)
         ELSE Fail(m, ErrResolveIdent)

\* The loops over st.Body and st.ElseBody in _if.
ifBody(m, body, i, d) ==
    IF i > Len(body) THEN m
    ELSE Only({ IF r.err # NoErr THEN r ELSE ifBody(r, body, i + 1, d)
                : r \in {exec(m, body[i], d)} })

\* _if with the else body run after the primary body as well.
_ifFallThrough(m, st, d) ==
    IF Len(m.Stack) < 1 THEN Fail(m, ErrIfEmpty)
    ELSE LET val == m.Stack[Len(m.Stack)]
             popped == [m EXCEPT !.Stack = Front(m.Stack, 1)]
         IN  IF d = 0 THEN Fail(m, Bound)
             ELSE Only({ IF r.err # NoErr THEN r
                         ELSE ifBody(r, st.ElseBody, 1, d - 1)
                         : r \in {IF val # 0
                                  THEN ifBody(popped, st.Body, 1, d - 1)
                                  ELSE popped} })

_if(m, st, d) ==
    IF Len(m.Stack) < 1 THEN Fail(m, ErrIfEmpty)
    ELSE LET val == m.Stack[Len(m.Stack)]
             popped == [m EXCEPT !.Stack = Front(m.Stack, 1)]
         IN  IF val # 0
             THEN IF d = 0 THEN Fail(m, Bound)
                  ELSE ifBody(popped, st.Body, 1, d - 1)
             ELSE IF Len(st.ElseBody) > 0
                  THEN IF d = 0 THEN Fail(m, Bound)
                       ELSE ifBody(popped, st.ElseBody, 1, d - 1)
                  ELSE popped

\* The loop over st.Body in while.
whileBody(m, body, i, d) ==
    IF i > Len(body) THEN m
    ELSE Only({ IF r.err # NoErr THEN r ELSE whileBody(r, body, i + 1, d)
                : r \in {exec(m, body[i], d)} })

\* whileCheck that reads the condition and leaves it on the stack.
whileCheckPeek(m) ==
    IF Len(m.Stack) < 1 THEN [m |-> Fail(m, ErrWhileEmpty), go |-> "fail"]
    ELSE [m |-> m, go |-> IF m.Stack[Len(m.Stack)] = 0 THEN "break" ELSE "body"]

\* The head of the for loop of while: the test of the depth, the pop of
\* val and the test of val.  go tells how the loop goes on.
whileCheck(m) ==
    IF Len(m.Stack) < 1 THEN [m |-> Fail(m, ErrWhileEmpty), go |-> "fail"]
    ELSE [m |-> [m EXCEPT !.Stack = Front(m.Stack, 1)],
          go |-> IF m.Stack[Len(m.Stack)] = 0 THEN "break" ELSE "body"]

\* n counts the iterations of the for loop that are still followed.
while(m, st, d, n) ==
    Only({ IF c.go # "body" THEN c.m
           ELSE IF d = 0 \/ n = 0 THEN Fail(m, Bound)
           ELSE Only({ IF r.err # NoErr THEN r ELSE while(r, st, d, n - 1)
                       : r \in {whileBody(c.m, st.Body, 1, d - 1)} })
           : c \in {whileCheck(m)} })

\* exec with QUIT ending the execution as an error does.
execQuitEnds(m, st, d) ==
    CASE st.kind = "Comment" -> debugComments(m, st)
      [] st.kind = "Declaration" -> declareVariable(m, st)
      [] st.kind = "Function" -> function(m, st)
      [] st.kind = "PushNumber" -> pushNumber(m, st)
      [] st.kind = "IdentifierCall" -> indentifierCall(m, st, d)
      [] st.kind = "MathOperation" -> mathOperation(m, st)
      [] st.kind = "Drop" -> drop(m, st)
      [] st.kind = "Dup" -> dup(m, st)
      [] st.kind = "Swap" -> swap(m, st)
      [] st.kind = "CompareOperation" -> compare(m, st)
      [] st.kind = "Get" -> get(m, st)
      [] st.kind = "Store" -> store(m, st)
      [] st.kind = "If" -> _if(m, st, d)
      [] st.kind = "While" -> while(m, st, d, MaxIter)
      [] st.kind = "Quit" -> Fail(m, "quit")
      [] OTHER -> m

exec(m, st, d) ==
    CASE st.kind = "Comment" -> debugComments(m, st)
      [] st.kind = "Declaration" -> declareVariable(m, st)
      [] st.kind = "Function" -> function(m, st)
      [] st.kind = "PushNumber" -> pushNumber(m, st)
      [] st.kind = "IdentifierCall" -> indentifierCall(m, st, d)
      [] st.kind = "MathOperation" -> mathOperation(m, st)
      [] st.kind = "Drop" -> drop(m, st)
      [] st.kind = "Dup" -> dup(m, st)
      [] st.kind = "Swap" -> swap(m, st)
      [] st.kind = "CompareOperation" -> compare(m, st)
      [] st.kind = "Get" -> get(m, st)
      [] st.kind = "Store" -> store(m, st)
      [] st.kind = "If" -> _if(m, st, d)
      [] st.kind = "While" -> while(m, st, d, MaxIter)
      [] st.kind = "Quit" -> m
      [] OTHER -> m

Execute(m, st) == exec(m, st, MaxDepth)

----------------------------------------------------------------------------
(* State machine: one Execute per step, on the machine the previous        *)
(* statements left, until an Execute returns an error.                     *)

Machine == [Addresses |-> Addresses, Variables |-> Variables,
            Functions |-> Functions, Stack |-> Stack, StackNil |-> stackNil,
            err |-> NoErr]

RECURSIVE totalCells(_)
totalCells(vs) == IF vs = <<>> THEN 0
                  ELSE totalCells(Front(vs, 1)) + vs[Len(vs)].Size

\* The part of the state space that is explored: an Execute that leaves it
\* is not followed.
InBounds(m, maxStack, maxMem, minInt, maxInt) ==
    /\ Len(m.Stack) <= maxStack
    /\ \A v \in Range(m.Stack) : minInt <= v /\ v <= maxInt
    /\ totalCells(m.Variables) <= maxMem
    /\ \A i \in DOMAIN m.Variables :
           \A v \in Range(m.Variables[i].Data) : minInt <= v /\ v <= maxInt

\* The value a successful top-level STORE to the watched address was given,
\* the address being inside a declared variable.
storedBy(st, r) ==
    IF /\ st.kind = "Store"
       /\ r.err = NoErr
       /\ Stack[Len(Stack)] = watch
       /\ watch < totalCells(Variables)
    THEN <<Stack[Len(Stack) - 1]>>
    ELSE stored

Step(st) ==
    /\ LET r == Execute(Machine, st)
       IN  /\ r.err # Bound
           /\ Addresses' = r.Addresses
           /\ Variables' = r.Variables
           /\ Functions' = r.Functions
           /\ Stack' = r.Stack
           /\ stackNil' = r.StackNil
           /\ err' = r.err
           /\ stored' = storedBy(st, r)
    /\ last' = st
    /\ watch' = watch
    /\ loop' = loop
    /\ reader' = reader

\* One statement handed to Execute, within the bounds.
Fed(st, maxStack, maxMem, minInt, maxInt) ==
    /\ err = NoErr
    /\ InBounds(Execute(Machine, st), maxStack, maxMem, minInt, maxInt)
    /\ Step(st)
    /\ UNCHANGED mainVars

NoLoop == [body |-> <<>>, runs |-> 0, conds |-> <<>>]

\* The lex a new buf holds in every slot.
NoLex == [tok |-> "ILLEGAL", lit |-> <<>>]

NewReader(src) ==
    [p |-> NewParser(src), op |-> "none", got |-> NoLex, read |-> 0, pending |-> 0]

\* No Parser whose calls are followed.
NoReader == [p |-> Nil, op |-> "none", got |-> NoLex, read |-> 0, pending |-> 0]

NoInput ==
    /\ input = <<>>
    /\ prog = <<>>
    /\ phase = "feed"
    /\ pc = 0
    /\ out = <<>>
    /\ loop = NoLoop
    /\ reader = NoReader

Init ==
    /\ NoInput
    /\ Addresses = NewMachine.Addresses
    /\ Variables = NewMachine.Variables
    /\ Functions = NewMachine.Functions
    /\ Stack = NewMachine.Stack
    /\ stackNil = NewMachine.StackNil
    /\ err = NoErr
    /\ last = [kind |-> "none"]
    /\ stored = <<>>
    /\ watch = -1

(* The stack operations. *)
StackPushNumber ==
    \E n \in Lits :
        /\ phase = "feed"
        /\ Fed(PushNumber(n), MaxStack, 0, -MaxInt, MaxInt)

StackDrop ==
    /\ phase = "feed"
    /\ Fed(Drop, MaxStack, 0, -MaxInt, MaxInt)

StackDup ==
    /\ phase = "feed"
    /\ Fed(Dup, MaxStack, 0, -MaxInt, MaxInt)

StackSwap ==
    /\ phase = "feed"
    /\ Fed(Swap, MaxStack, 0, -MaxInt, MaxInt)

StackMath ==
    \E tok \in MathToks :
        /\ phase = "feed"
        /\ Fed(MathOperation(tok), MaxStack, 0, -MaxInt, MaxInt)

StackCompare ==
    \E tok \in CompareToks :
        /\ phase = "feed"
        /\ Fed(CompareOperation(tok), MaxStack, 0, -MaxInt, MaxInt)

NextStack ==
    \/ StackPushNumber
    \/ StackDrop
    \/ StackDup
    \/ StackSwap
    \/ StackMath
    \/ StackCompare

SpecStack == Init /\ [][NextStack]_vars

(* The memory: declarations, GET and STORE. *)
MemDeclaration ==
    \E name \in Names, cells \in 1..MaxCells :
        /\ phase = "feed"
        /\ Fed(Declaration(name, cells), MemStack, MaxMem, -1, MaxLit)

MemPushNumber ==
    \E n \in Lits :
        /\ phase = "feed"
        /\ Fed(PushNumber(n), MemStack, MaxMem, -1, MaxLit)

MemMath ==
    \E tok \in MathToks :
        /\ phase = "feed"
        /\ Fed(MathOperation(tok), MemStack, MaxMem, -1, MaxLit)

MemGet ==
    /\ phase = "feed"
    /\ Fed(Get, MemStack, MaxMem, -1, MaxLit)

MemStore ==
    /\ phase = "feed"
    /\ Fed(Store, MemStack, MaxMem, -1, MaxLit)

NextMem ==
    \/ MemDeclaration
    \/ MemPushNumber
    \/ MemMath
    \/ MemGet
    \/ MemStore

SpecMem == Init /\ [][NextMem]_vars

\* The same runs, with the stores to one address recorded.
InitWatch ==
    /\ NoInput
    /\ Addresses = NewMachine.Addresses
    /\ Variables = NewMachine.Variables
    /\ Functions = NewMachine.Functions
    /\ Stack = NewMachine.Stack
    /\ stackNil = NewMachine.StackNil
    /\ err = NoErr
    /\ last = [kind |-> "none"]
    /\ stored = <<>>
    /\ watch \in 0..(MaxMem - 1)

SpecRoundTrip == InitWatch /\ [][NextMem]_vars

(* The declarations alone. *)
DeclBody == <<PushNumber(1)>>
DeclMem == Cardinality(DeclNames) * MaxCells

DeclDeclaration ==
    \E name \in DeclNames, cells \in 1..MaxCells :
        /\ phase = "feed"
        /\ Fed(Declaration(name, cells), 0, DeclMem, 0, 0)

DeclFunction ==
    \E name \in DeclNames :
        /\ phase = "feed"
        /\ Fed(FunctionDecl(name, DeclBody), 0, DeclMem, 0, 0)

NextDecl ==
    \/ DeclDeclaration
    \/ DeclFunction

SpecDecl == Init /\ [][NextDecl]_vars

----------------------------------------------------------------------------
(* The program texts given on standard input: the example scenarios, and   *)
(* the texts made of up to MaxFrags fragments that declare, call and store. *)

\* VARIABLE x 3 5 x ! 3 x @
SrcStoreGet ==
    <<"V", "A", "R", "I", "A", "B", "L", "E", " ", "x", " ", "3", " ", "5",
      " ", "x", " ", "!", " ", "3", " ", "x", " ", "@">>

\* 5 3 -
SrcMinus ==
    <<"5", " ", "3", " ", "-">>

\* : double 2 * ; 4 double
SrcDouble ==
    <<":", " ", "d", "o", "u", "b", "l", "e", " ", "2", " ", "*", " ", ";",
      " ", "4", " ", "d", "o", "u", "b", "l", "e">>

\* 1 IF 42 ELSE 99 THEN
SrcIfOne ==
    <<"1", " ", "I", "F", " ", "4", "2", " ", "E", "L", "S", "E", " ", "9",
      "9", " ", "T", "H", "E", "N">>

\* 0 IF 42 ELSE 99 THEN
SrcIfZero ==
    <<"0", " ", "I", "F", " ", "4", "2", " ", "E", "L", "S", "E", " ", "9",
      "9", " ", "T", "H", "E", "N">>

\* VARIABLE
SrcNoIdent ==
    <<"V", "A", "R", "I", "A", "B", "L", "E">>

\* VARIABLE x 1 CELLS VARIABLE x 1 CELLS
SrcRedeclare ==
    <<"V", "A", "R", "I", "A", "B", "L", "E", " ", "x", " ", "1", " ", "C",
      "E", "L", "L", "S", " ", "V", "A", "R", "I", "A", "B", "L", "E", " ",
      "x", " ", "1", " ", "C", "E", "L", "L", "S">>

\* VARIABLE x 7 1 !
SrcStoreBeyond ==
    <<"V", "A", "R", "I", "A", "B", "L", "E", " ", "x", " ", "7", " ", "1",
      " ", "!">>

\* VARIABLE x 5 x ! 9 1 ! x @
SrcStoreAlias ==
    <<"V", "A", "R", "I", "A", "B", "L", "E", " ", "x", " ", "5", " ", "x",
      " ", "!", " ", "9", " ", "1", " ", "!", " ", "x", " ", "@">>

Examples ==
    {SrcStoreGet, SrcMinus, SrcDouble, SrcIfOne,
     SrcIfZero, SrcNoIdent, SrcRedeclare, SrcStoreBeyond,
     SrcStoreAlias}

\* The fragments:  x   y   VARIABLE x   VARIABLE y 2 CELLS   : x 1 ;
\* : y x ;   7 x !   each with a blank after it.
Frags ==
    { <<"x", " ">>,
      <<"y", " ">>,
      <<"V", "A", "R", "I", "A", "B", "L", "E", " ", "x", " ">>,
      <<"V", "A", "R", "I", "A", "B", "L", "E", " ", "y", " ", "2", " ", "C",
        "E", "L", "L", "S", " ">>,
      <<":", " ", "x", " ", "1", " ", ";", " ">>,
      <<":", " ", "y", " ", "x", " ", ";", " ">>,
      <<"7", " ", "x", " ", "!", " ">> }

\* Texts in which a statement fails and a 7 would be pushed after it if the
\* execution went on:
\*   : y DROP 7 ; y 7
\*   1 IF DROP 7 THEN 7
\*   0 IF 1 ELSE DROP 7 THEN 7
\*   1 WHILE DROP 7 REPEAT 7
\*   1 0 / 7
\*   1 0 MOD 7
\*   DROP 7
\*   : y 1 IF DROP 7 THEN 7 ; y 7
\*   : y DROP 7 ; 1 WHILE 0 IF ELSE y 7 THEN 7 REPEAT 7
FailFastTexts ==
    { <<":", " ", "y", " ", "D", "R", "O", "P", " ", "7", " ", ";", " ",
        "y", " ", "7">>,
      <<"1", " ", "I", "F", " ", "D", "R", "O", "P", " ", "7", " ", "T",
        "H", "E", "N", " ", "7">>,
      <<"0", " ", "I", "F", " ", "1", " ", "E", "L", "S", "E", " ", "D",
        "R", "O", "P", " ", "7", " ", "T", "H", "E", "N", " ", "7">>,
      <<"1", " ", "W", "H", "I", "L", "E", " ", "D", "R", "O", "P", " ",
        "7", " ", "R", "E", "P", "E", "A", "T", " ", "7">>,
      <<"1", " ", "0", " ", "/", " ", "7">>,
      <<"1", " ", "0", " ", "M", "O", "D", " ", "7">>,
      <<"D", "R", "O", "P", " ", "7">>,
      <<":", " ", "y", " ", "1", " ", "I", "F", " ", "D", "R", "O", "P",
        " ", "7", " ", "T", "H", "E", "N", " ", "7", " ", ";", " ", "y",
        " ", "7">>,
      <<":", " ", "y", " ", "D", "R", "O", "P", " ", "7", " ", ";", " ",
        "1", " ", "W", "H", "I", "L", "E", " ", "0", " ", "I", "F", " ",
        "E", "L", "S", "E", " ", "y", " ", "7", " ", "T", "H", "E", "N",
        " ", "7", " ", "R", "E", "P", "E", "A", "T", " ", "7">> }

\* VARIABLE x
SrcVarX ==
    <<"V", "A", "R", "I", "A", "B", "L", "E", " ", "x", " ">>

\* The tokens put after VARIABLE x, each with a blank after it:
\*   3   0   CELLS   DUP   VARIABLE   and none
TailToks ==
    { <<"3", " ">>,
      <<"0", " ">>,
      <<"C", "E", "L", "L", "S", " ">>,
      <<"D", "U", "P", " ">>,
      <<"V", "A", "R", "I", "A", "B", "L", "E", " ">>,
      <<>> }

\* VARIABLE x followed by two of these tokens, and by 5 or nothing.
LookaheadTexts ==
    {SrcVarX \o a \o b \o c : a \in TailToks, b \in TailToks,
                              c \in {<<>>, <<"5", " ">>}}

\* The places of a token: the text before it and the tokens that end or
\* continue the construct there (top level, function body, IF, ELSE,
\* WHILE, IF in a function body).
\*   (none)   : y 1   IF 1   IF ELSE 1   WHILE 1   : y IF 1
Contexts ==
    {[text |-> <<>>,
      ends |-> {"EOF", "Variable", "StartFunc"}],
     [text |-> <<":", " ", "y", " ", "1", " ">>,
      ends |-> {"EndFunc"}],
     [text |-> <<"I", "F", " ", "1", " ">>,
      ends |-> {"Then", "Else"}],
     [text |-> <<"I", "F", " ", "E", "L", "S", "E", " ", "1", " ">>,
      ends |-> {"Then"}],
     [text |-> <<"W", "H", "I", "L", "E", " ", "1", " ">>,
      ends |-> {"Repeat"}],
     [text |-> <<":", " ", "y", " ", "I", "F", " ", "1", " ">>,
      ends |-> {"Then", "Else"}]}

\* The tokens that start no CommonStmt, each with the text after it.
\*   VARIABLE x 7   : z ; 7   ; 7   THEN 7   ELSE 7   REPEAT 7   CELLS 7
\*   # 7   and the end of the text
Others ==
    {[text |-> <<"V", "A", "R", "I", "A", "B", "L", "E", " ", "x", " ", "7",
                 " ">>,
      tok |-> "Variable"],
     [text |-> <<":", " ", "z", " ", ";", " ", "7", " ">>,
      tok |-> "StartFunc"],
     [text |-> <<";", " ", "7", " ">>,
      tok |-> "EndFunc"],
     [text |-> <<"T", "H", "E", "N", " ", "7", " ">>,
      tok |-> "Then"],
     [text |-> <<"E", "L", "S", "E", " ", "7", " ">>,
      tok |-> "Else"],
     [text |-> <<"R", "E", "P", "E", "A", "T", " ", "7", " ">>,
      tok |-> "Repeat"],
     [text |-> <<"C", "E", "L", "L", "S", " ", "7", " ">>,
      tok |-> "Cells"],
     [text |-> <<"#", " ", "7", " ">>,
      tok |-> "ILLEGAL"],
     [text |-> <<>>,
      tok |-> "EOF"]}

ContextTexts == {c.text \o t.text : c \in Contexts, t \in Others}

\* The statements between IF, ELSE and THEN: their text and what they are
\* parsed to.
\*   (none)   1   2 DUP
BranchTexts ==
    {[text |-> <<>>, sts |-> <<>>],
     [text |-> <<"1", " ">>, sts |-> <<PushNumber(1)>>],
     [text |-> <<"2", " ", "D", "U", "P", " ">>, sts |-> <<PushNumber(2), Dup>>]}

SrcIf == <<"0", " ", "I", "F", " ">>
SrcElse == <<"E", "L", "S", "E", " ">>
SrcThen == <<"T", "H", "E", "N", " ">>

\* 0 IF a THEN, 0 IF a ELSE b THEN, 0 IF a ELSE b ELSE c THEN
IfTexts ==
    {SrcIf \o a.text \o SrcThen : a \in BranchTexts}
        \cup {SrcIf \o a.text \o SrcElse \o b.text \o SrcThen
                 : a \in BranchTexts, b \in BranchTexts}
        \cup {SrcIf \o a.text \o SrcElse \o b.text \o SrcElse \o c.text \o SrcThen
                 : a \in BranchTexts, b \in BranchTexts, c \in BranchTexts}

\* QUIT followed by a 7 at top level and in the bodies:
\*   QUIT 7
\*   1 IF QUIT 7 THEN 7
\*   0 IF ELSE QUIT 7 THEN 7
\*   : y QUIT 7 ; y 7
\*   1 WHILE QUIT 7 0 REPEAT 7
\*   : y 1 WHILE 1 IF QUIT 7 THEN 0 REPEAT 7 ; y 7
QuitTexts ==
    { <<"Q", "U", "I", "T", " ", "7", " ">>,
      <<"1", " ", "I", "F", " ", "Q", "U", "I", "T", " ", "7", " ", "T",
        "H", "E", "N", " ", "7", " ">>,
      <<"0", " ", "I", "F", " ", "E", "L", "S", "E", " ", "Q", "U", "I",
        "T", " ", "7", " ", "T", "H", "E", "N", " ", "7", " ">>,
      <<":", " ", "y", " ", "Q", "U", "I", "T", " ", "7", " ", ";", " ",
        "y", " ", "7", " ">>,
      <<"1", " ", "W", "H", "I", "L", "E", " ", "Q", "U", "I", "T", " ",
        "7", " ", "0", " ", "R", "E", "P", "E", "A", "T", " ", "7", " ">>,
      <<":", " ", "y", " ", "1", " ", "W", "H", "I", "L", "E", " ", "1",
        " ", "I", "F", " ", "Q", "U", "I", "T", " ", "7", " ", "T", "H",
        "E", "N", " ", "0", " ", "R", "E", "P", "E", "A", "T", " ", "7",
        " ", ";", " ", "y", " ", "7", " ">> }

\* The last of QuitTexts.
SrcQuitNested ==
    <<":", " ", "y", " ", "1", " ", "W", "H", "I", "L", "E", " ", "1", " ",
      "I", "F", " ", "Q", "U", "I", "T", " ", "7", " ", "T", "H", "E", "N",
      " ", "0", " ", "R", "E", "P", "E", "A", "T", " ", "7", " ", ";", " ",
      "y", " ", "7", " ">>

RECURSIVE FragTexts(_)
FragTexts(n) ==
    IF n = 0 THEN {<<>>}
    ELSE FragTexts(n - 1) \cup {t \o f : t \in FragTexts(n - 1), f \in Frags}

Sources ==
    Examples \cup FailFastTexts \cup LookaheadTexts \cup ContextTexts
        \cup IfTexts \cup QuitTexts
        \cup FragTexts(MaxFrags)

----------------------------------------------------------------------------
(* main: parse the input, execute the Program statement by statement as    *)
(* the Program case of exec does, and encode the stack when no error came. *)

InitMainOn(texts) ==
    /\ input \in texts
    /\ prog = <<>>
    /\ phase = "parse"
    /\ pc = 0
    /\ out = <<>>
    /\ Addresses = NewMachine.Addresses
    /\ Variables = NewMachine.Variables
    /\ Functions = NewMachine.Functions
    /\ Stack = NewMachine.Stack
    /\ stackNil = NewMachine.StackNil
    /\ err = NoErr
    /\ last = [kind |-> "none"]
    /\ stored = <<>>
    /\ watch = -1
    /\ loop = NoLoop
    /\ reader = NoReader

InitMain == InitMainOn(Sources)

MainParse ==
    /\ phase = "parse"
    /\ LET r == Parse(input)
       IN  /\ prog' = r.prog
           /\ err' = r.err
           /\ phase' = IF r.err # NoErr THEN "failed" ELSE "exec"
    /\ pc' = 1
    /\ UNCHANGED <<machineVars, stackNil, last, watch, stored, input, out, loop,
                 reader>>

MainExecute ==
    /\ phase = "exec"
    /\ pc <= Len(prog)
    /\ Step(prog[pc])
    /\ phase' = IF err' # NoErr THEN "failed" ELSE "exec"
    /\ pc' = IF err' # NoErr THEN pc ELSE pc + 1
    /\ UNCHANGED <<input, prog, out>>

\* strconv's decimal form of an integer, as encoding/json writes it.
RECURSIVE natToString(_)
natToString(n) ==
    IF n < 10 THEN <<Digits[n + 1]>>
    ELSE natToString(n \div 10) \o <<Digits[(n % 10) + 1]>>

intToString(n) == IF n < 0 THEN <<"-">> \o natToString(-n) ELSE natToString(n)

\* The elements of a JSON array, from element i on.
RECURSIVE jsonElements(_, _)
jsonElements(stack, i) ==
    IF i > Len(stack) THEN <<>>
    ELSE (IF i > 1 THEN <<",">> ELSE <<>>)
             \o intToString(stack[i]) \o jsonElements(stack, i + 1)

\* Encoder.Encode of a []int: null for the nil slice, else the array; a
\* newline ends the value.
Encode(stack, isNil) ==
    (IF isNil THEN <<"n", "u", "l", "l">>
     ELSE <<"[">> \o jsonElements(stack, 1) \o <<"]">>) \o <<"\n">>

MainEncode ==
    /\ phase = "exec"
    /\ pc > Len(prog)
    /\ out' = Encode(Stack, stackNil)
    /\ phase' = "done"
    /\ UNCHANGED <<machineVars, stackNil, err, last, watch, stored, input, prog,
                   pc, loop, reader>>

NextMain ==
    \/ MainParse
    \/ MainExecute
    \/ MainEncode

SpecMain == InitMain /\ [][NextMain]_vars

----------------------------------------------------------------------------
(* Calls and IF: statements fed to a machine that holds a variable x and   *)
(* the functions y and z, next to the runs of main on the texts of the     *)
(* examples that call a function or take a branch.                         *)

\* 2 *      DROP DROP      z      1 x !
FuncBodies ==
    { <<PushNumber(2), MathOperation("Multiply")>>,
      <<Drop, Drop>>,
      <<IdentifierCall(NameZ)>>,
      <<PushNumber(1), IdentifierCall(NameX), Store>> }

\* 1      DROP DROP      y
ThenBodies ==
    { <<PushNumber(1)>>, <<Drop, Drop>>, <<IdentifierCall(NameY)>> }

\* (none)      2      DROP DROP
ElseBodies ==
    { <<>>, <<PushNumber(2)>>, <<Drop, Drop>> }

CtlTexts == {SrcDouble, SrcIfOne, SrcIfZero}

CtlDeclaration ==
    /\ phase = "feed"
    /\ Fed(Declaration(NameX, 1), CtlStack, 1, 0, MaxLit)

CtlFunction ==
    \E name \in {NameY, NameZ}, body \in FuncBodies :
        /\ phase = "feed"
        /\ Fed(FunctionDecl(name, body), CtlStack, 1, 0, MaxLit)

CtlPushNumber ==
    \E n \in Lits :
        /\ phase = "feed"
        /\ Fed(PushNumber(n), CtlStack, 1, 0, MaxLit)

CtlIdentifierCall ==
    \E name \in DeclNames :
        /\ phase = "feed"
        /\ Fed(IdentifierCall(name), CtlStack, 1, 0, MaxLit)

CtlIf ==
    \E body \in ThenBodies, elseBody \in ElseBodies :
        /\ phase = "feed"
        /\ Fed(If(body, elseBody), CtlStack, 1, 0, MaxLit)

InitCtl == Init \/ InitMainOn(CtlTexts)

NextCtl ==
    \/ CtlDeclaration
    \/ CtlFunction
    \/ CtlPushNumber
    \/ CtlIdentifierCall
    \/ CtlIf
    \/ MainParse
    \/ MainExecute
    \/ MainEncode

SpecCtl == InitCtl /\ [][NextCtl]_vars

----------------------------------------------------------------------------
(* WHILE step by step: the head of the for loop of while is one step and   *)
(* one run of the body the next, on stacks built by pushes.  A loop is     *)
(* followed for MaxIter runs of its body.                                  *)

\* (none)      1      0      DROP      DUP
LoopBodies ==
    { <<>>, <<PushNumber(1)>>, <<PushNumber(0)>>, <<Drop>>, <<Dup>> }

LoopPushNumber ==
    \E n \in Lits :
        /\ phase = "feed"
        /\ Fed(PushNumber(n), LoopStack, 0, 0, MaxLit)

\* exec hands a WhileStatement to while.
LoopEnter ==
    \E body \in LoopBodies :
        /\ phase = "feed"
        /\ err = NoErr
        /\ phase' = "check"
        /\ loop' = [body |-> body, runs |-> 0, conds |-> <<>>]
        /\ last' = While(body)
        /\ UNCHANGED <<machineVars, stackNil, err, watch, stored, input, prog,
                       pc, out, reader>>

LoopCheck ==
    /\ phase = "check"
    /\ LET c == whileCheck(Machine)
       IN  /\ Stack' = c.m.Stack
           /\ err' = c.m.err
           /\ phase' = IF c.go = "body" THEN "body" ELSE "feed"
           /\ loop' = IF c.go = "fail" THEN loop
                      ELSE [loop EXCEPT !.conds = Append(@, Stack[Len(Stack)])]
    /\ UNCHANGED <<Addresses, Variables, Functions, stackNil, last, watch,
                   stored, input, prog, pc, out, reader>>

LoopBody ==
    /\ phase = "body"
    /\ loop.runs < MaxIter
    /\ LET r == whileBody(Machine, loop.body, 1, MaxDepth)
       IN  /\ r.err # Bound
           /\ InBounds(r, LoopStack, 0, 0, MaxLit)
           /\ Addresses' = r.Addresses
           /\ Variables' = r.Variables
           /\ Functions' = r.Functions
           /\ Stack' = r.Stack
           /\ stackNil' = r.StackNil
           /\ err' = r.err
           /\ phase' = IF r.err # NoErr THEN "feed" ELSE "check"
    /\ loop' = [loop EXCEPT !.runs = @ + 1]
    /\ UNCHANGED <<last, watch, stored, input, prog, pc, out, reader>>

NextLoop ==
    \/ LoopPushNumber
    \/ LoopEnter
    \/ LoopCheck
    \/ LoopBody

SpecLoop == Init /\ [][NextLoop]_vars

----------------------------------------------------------------------------
(* Every kind of statement fed to a machine with at most the variable x    *)
(* and the function y, the compound statements with bodies that fail.      *)

AllSimple ==
    {PushNumber(n) : n \in Lits}
        \cup {MathOperation(tok) : tok \in MathToks}
        \cup {CompareOperation(tok) : tok \in CompareToks}
        \cup {Drop, Dup, Swap, Get, Store, Quit}

\* (none)      DROP      0      1 DROP DROP
AllBodies ==
    { <<>>, <<Drop>>, <<PushNumber(0)>>, <<PushNumber(1), Drop, Drop>> }

AllCompound ==
    {IdentifierCall(name) : name \in Names}
        \cup {If(body, elseBody) : body \in AllBodies, elseBody \in {<<>>, <<Drop>>}}
        \cup {While(body) : body \in AllBodies}

AllDeclare ==
    \E st \in {Declaration(NameX, 1)}
                  \cup {FunctionDecl(NameY, body) : body \in AllBodies} :
        /\ phase = "feed"
        /\ Fed(st, CtlStack, 1, 0, MaxLit)

AllExecuteSimple ==
    \E st \in AllSimple :
        /\ phase = "feed"
        /\ Fed(st, CtlStack, 1, 0, MaxLit)

AllExecuteCompound ==
    \E st \in AllCompound :
        /\ phase = "feed"
        /\ Fed(st, CtlStack, 1, 0, MaxLit)

NextAll ==
    \/ AllDeclare
    \/ AllExecuteSimple
    \/ AllExecuteCompound

SpecAll == Init /\ [][NextAll]_vars

----------------------------------------------------------------------------
(* Comments, on machines with and without the variable x and the function  *)
(* y.                                                                       *)

\* The bodies of the comments:
\*   ()
\*   (hello)
\*   (debug)
\*   (debug stack)
\*   (debug stack now)
\*   (debug var)
\*   (debug var x)
\*   (debug var x now)
\*   (debug var y)
\*   (debug var z)
\*   (debug var )
\*   (debug dump x)
\*   (debugvar z)
\*   ( debug var z)
\*   (var z)
CommentBodies ==
    { <<>>,
      <<"h", "e", "l", "l", "o">>,
      <<"d", "e", "b", "u", "g">>,
      <<"d", "e", "b", "u", "g", " ", "s", "t", "a", "c", "k">>,
      <<"d", "e", "b", "u", "g", " ", "s", "t", "a", "c", "k", " ", "n",
        "o", "w">>,
      <<"d", "e", "b", "u", "g", " ", "v", "a", "r">>,
      <<"d", "e", "b", "u", "g", " ", "v", "a", "r", " ", "x">>,
      <<"d", "e", "b", "u", "g", " ", "v", "a", "r", " ", "x", " ", "n",
        "o", "w">>,
      <<"d", "e", "b", "u", "g", " ", "v", "a", "r", " ", "y">>,
      <<"d", "e", "b", "u", "g", " ", "v", "a", "r", " ", "z">>,
      <<"d", "e", "b", "u", "g", " ", "v", "a", "r", " ">>,
      <<"d", "e", "b", "u", "g", " ", "d", "u", "m", "p", " ", "x">>,
      <<"d", "e", "b", "u", "g", "v", "a", "r", " ", "z">>,
      <<" ", "d", "e", "b", "u", "g", " ", "v", "a", "r", " ", "z">>,
      <<"v", "a", "r", " ", "z">> }

CommentDeclaration ==
    /\ phase = "feed"
    /\ Fed(Declaration(NameX, 1), CtlStack, 1, 0, MaxLit)

CommentFunction ==
    /\ phase = "feed"
    /\ Fed(FunctionDecl(NameY, <<Drop>>), CtlStack, 1, 0, MaxLit)

CommentPushNumber ==
    \E n \in Lits :
        /\ phase = "feed"
        /\ Fed(PushNumber(n), CtlStack, 1, 0, MaxLit)

CommentExecute ==
    \E body \in CommentBodies :
        /\ phase = "feed"
        /\ Fed(Comment(body), CtlStack, 1, 0, MaxLit)

NextComment ==
    \/ CommentDeclaration
    \/ CommentFunction
    \/ CommentPushNumber
    \/ CommentExecute

SpecComment == Init /\ [][NextComment]_vars

----------------------------------------------------------------------------
(* The variables over a run: declarations, GET and STORE at top level and  *)
(* STORE inside function bodies, IF branches and WHILE bodies.              *)

\* 1 0 !      ! DROP      1 0 ! 0
StoreBodies ==
    { <<PushNumber(1), PushNumber(0), Store>>,
      <<Store, Drop>>,
      <<PushNumber(1), PushNumber(0), Store, PushNumber(0)>> }

GrowDeclaration ==
    \E name \in Names, cells \in 1..GrowMem :
        /\ phase = "feed"
        /\ Fed(Declaration(name, cells), GrowStack, GrowMem, 0, GrowInt)

GrowFunction ==
    /\ phase = "feed"
    /\ Fed(FunctionDecl(NameZ, <<PushNumber(1), PushNumber(0), Store>>),
           GrowStack, GrowMem, 0, GrowInt)

GrowPushNumber ==
    \E n \in 0..GrowInt :
        /\ phase = "feed"
        /\ Fed(PushNumber(n), GrowStack, GrowMem, 0, GrowInt)

GrowGet ==
    /\ phase = "feed"
    /\ Fed(Get, GrowStack, GrowMem, 0, GrowInt)

GrowStore ==
    /\ phase = "feed"
    /\ Fed(Store, GrowStack, GrowMem, 0, GrowInt)

GrowIdentifierCall ==
    /\ phase = "feed"
    /\ Fed(IdentifierCall(NameZ), GrowStack, GrowMem, 0, GrowInt)

GrowIf ==
    \E body \in StoreBodies :
        /\ phase = "feed"
        /\ Fed(If(body, <<Drop>>), GrowStack, GrowMem, 0, GrowInt)

GrowWhile ==
    /\ phase = "feed"
    /\ Fed(While(<<PushNumber(1), PushNumber(0), Store, PushNumber(0)>>),
           GrowStack, GrowMem, 0, GrowInt)

NextGrow ==
    \/ GrowDeclaration
    \/ GrowFunction
    \/ GrowPushNumber
    \/ GrowGet
    \/ GrowStore
    \/ GrowIdentifierCall
    \/ GrowIf
    \/ GrowWhile

SpecGrow == Init /\ [][NextGrow]_vars

----------------------------------------------------------------------------
(* The Parser's scan and unscan called one by one, on a text with more      *)
(* tokens than buf has slots.                                               *)

MaxTokens == BufSize + 3

\* The numbers i, i + 1, ... below MaxTokens, a blank after each.
RECURSIVE streamText(_)
streamText(i) ==
    IF i >= MaxTokens THEN <<>>
    ELSE natToString(i) \o <<" ">> \o streamText(i + 1)

StreamText == streamText(0)

InitReader ==
    /\ input = StreamText
    /\ prog = <<>>
    /\ phase = "read"
    /\ pc = 0
    /\ out = <<>>
    /\ loop = NoLoop
    /\ reader = NewReader(StreamText)
    /\ Addresses = NewMachine.Addresses
    /\ Variables = NewMachine.Variables
    /\ Functions = NewMachine.Functions
    /\ Stack = NewMachine.Stack
    /\ stackNil = NewMachine.StackNil
    /\ err = NoErr
    /\ last = [kind |-> "none"]
    /\ stored = <<>>
    /\ watch = -1

\* p.scan(): with nothing pushed back it reads the scanner, at most twice
\* past the last token of the text.
ReaderScan ==
    /\ phase = "read"
    /\ reader.pending > 0 \/ reader.read < MaxTokens + 2
    /\ LET r == scan(reader.p)
       IN  reader' = [p |-> r.p, op |-> "scan",
                      got |-> [tok |-> r.tok, lit |-> r.lit],
                      read |-> IF reader.pending = 0 THEN reader.read + 1
                               ELSE reader.read,
                      pending |-> IF reader.pending = 0 THEN 0
                                  ELSE reader.pending - 1]
    /\ UNCHANGED <<machineVars, stackNil, err, last, watch, stored, mainVars,
                   loop>>

\* p.unscan(), called when a token it has not pushed back yet was returned
\* and fewer than BufSize - 1 are pushed back.
ReaderUnscan ==
    /\ phase = "read"
    /\ reader.pending < reader.read
    /\ reader.pending < BufSize - 1
    /\ reader' = [reader EXCEPT !.p = unscan(reader.p), !.op = "unscan",
                                !.got = NoLex, !.pending = @ + 1]
    /\ UNCHANGED <<machineVars, stackNil, err, last, watch, stored, mainVars,
                   loop>>

NextReader ==
    \/ ReaderScan
    \/ ReaderUnscan

SpecReader == InitReader /\ [][NextReader]_vars

----------------------------------------------------------------------------
(* Properties.  A step that executes statement st has last' = st; the      *)
(* unprimed variables are the machine before it and the primed ones the    *)
(* machine after it.                                                       *)

Depth == Len(Stack)
Top == Stack[Len(Stack)]
Second == Stack[Len(Stack) - 1]
\* The step is an Execute: of a statement fed, or of the next statement of
\* the parsed program.
Executing == phase = "feed" \/ (phase = "exec" /\ pc <= Len(prog))
Ran(kind) == Executing /\ last'.kind = kind
Failed == err' # NoErr
Succeeded == err' = NoErr

\* C6: DUP needs depth >= 1 and pushes a copy of the top; DROP needs depth
\* >= 1 and removes the top; SWAP needs depth >= 2, keeps the depth and
\* exchanges the top two elements only; below its minimum depth each of
\* them fails with an error.
StackOpsExact ==
    [][ /\ Ran("Dup") =>
              IF Depth >= 1
              THEN Succeeded /\ Len(Stack') = Depth + 1
                   /\ Stack'[Depth + 1] = Top
                   /\ \A i \in 1..Depth : Stack'[i] = Stack[i]
              ELSE Failed
        /\ Ran("Drop") =>
              IF Depth >= 1
              THEN Succeeded /\ Len(Stack') = Depth - 1
                   /\ \A i \in 1..(Depth - 1) : Stack'[i] = Stack[i]
              ELSE Failed
        /\ Ran("Swap") =>
              IF Depth >= 2
              THEN Succeeded /\ Len(Stack') = Depth
                   /\ Stack'[Depth] = Second
                   /\ Stack'[Depth - 1] = Top
                   /\ \A i \in 1..(Depth - 2) : Stack'[i] = Stack[i]
              ELSE Failed
      ]_vars

\* A SWAP has exchanged two different elements above a third one.
StackOpsWitness ==
    /\ last.kind = "Swap"
    /\ err = NoErr
    /\ Len(Stack) = 3
    /\ Stack[2] # Stack[3]
    /\ Stack[1] # Stack[2]

\* What each binary operator is to compute from left operand a and right
\* operand b, stated without the machine's own arithmetic: the quotient is
\* the q with a = q*b + r, |r| < |b| and r zero or of the sign of a.
RefQuotient(a, b) ==
    CHOOSE q \in -Abs(a)..Abs(a) :
        \E r \in -Abs(b)..Abs(b) :
            /\ a = q * b + r
            /\ Abs(r) < Abs(b)
            /\ r = 0 \/ (r < 0) = (a < 0)

RefBinary(tok, a, b) ==
    CASE tok = "Plus" -> a + b
      [] tok = "Minus" -> a - b
      [] tok = "Multiply" -> a * b
      [] tok = "Divide" -> RefQuotient(a, b)
      [] tok = "Modulus" -> a - b * RefQuotient(a, b)
      [] tok = "EQ" -> IF a = b THEN 1 ELSE 0
      [] tok = "LT" -> IF a < b THEN 1 ELSE 0
      [] tok = "GT" -> IF a > b THEN 1 ELSE 0
      [] tok = "LTE" -> IF a <= b THEN 1 ELSE 0
      [] tok = "GTE" -> IF a >= b THEN 1 ELSE 0

RanBinary == Ran("MathOperation") \/ Ran("CompareOperation")

PushesResult ==
    /\ Succeeded
    /\ Len(Stack') = Depth - 1
    /\ Stack'[Depth - 1] = RefBinary(last'.tok, Second, Top)
    /\ \A i \in 1..(Depth - 2) : Stack'[i] = Stack[i]

DividesByZero == last'.tok \in {"Divide", "Modulus"} /\ Top = 0

\* C7 as claimed: every binary operator run at depth >= 2 removes both
\* operands and pushes the one result of a op b, leaving the rest alone.
BinaryOpsAlwaysPush ==
    [][ RanBinary => IF Depth >= 2 THEN PushesResult ELSE Failed ]_vars

\* C7: a binary operator needs depth >= 2; it removes a and b (b on top)
\* and pushes the one result of a op b, a comparison giving 1 or 0, and it
\* leaves the elements below a alone; except that / and MOD with b = 0
\* push nothing: the program ends with a runtime fault.
BinaryOpsPushUnlessZeroDivisor ==
    [][ RanBinary =>
            IF Depth < 2 THEN Failed
            ELSE IF DividesByZero THEN err' = PanicDivide
            ELSE PushesResult ]_vars

\* A subtraction has left a negative result above an untouched element.
BinaryOpsWitness ==
    /\ last.kind = "MathOperation"
    /\ last.tok = "Minus"
    /\ err = NoErr
    /\ Len(Stack) = 2
    /\ Stack[2] < 0

Total == totalCells(Variables)

\* The addresses a program can compute within the bounds.
ProbeAddrs == (-MaxInt)..(MaxMem + MaxCells + MaxInt)

OutOfRange(addr) == addr < 0 \/ addr >= Total

\* C1 as claimed: in every state resolve_address fails for every address
\* that is negative or at least the number of cells declared so far, so a
\* GET or a STORE of such an address fails and no cell is read or written.
OutOfRangeAddressFails ==
    \A addr \in ProbeAddrs :
        OutOfRange(addr) =>
            /\ ~resolveAddr(Machine, addr).ok
            /\ get([Machine EXCEPT !.Stack = <<addr>>], Get).err = ErrResolveAddr
            /\ LET r == store([Machine EXCEPT !.Stack = <<1, addr>>], Store)
               IN  r.err = ErrResolveAddr /\ r.Variables = Variables

\* C4 as claimed: STORE removes its two operands; a GET of an address
\* inside a declared variable, after a STORE of v to that address and no
\* STORE to that address since, replaces the address by v and leaves the
\* cells alone.
StoreGetRoundTrip ==
    [][ /\ Ran("Store") /\ Succeeded => Stack' = Front(Stack, 2)
        /\ Ran("Get") /\ Depth >= 1 /\ Top = watch /\ watch < Total
                      /\ stored # <<>> =>
               /\ Succeeded
               /\ Stack' = Append(Front(Stack, 1), stored[1])
               /\ Variables' = Variables
      ]_vars

RECURSIVE sizesBefore(_, _)
sizesBefore(vs, i) == IF i <= 1 THEN 0 ELSE sizesBefore(vs, i - 1) + vs[i - 1].Size

BaseOf(i) == Addresses[Variables[i].Name]

\* C2: the address map holds exactly the declared variables, each with the
\* sum of the cell counts of the variables declared before it as its base;
\* so the ranges follow one another in declaration order, without gap or
\* overlap.
BasesAreRunningTotals ==
    /\ DOMAIN Addresses = {Variables[i].Name : i \in DOMAIN Variables}
    /\ \A i, j \in DOMAIN Variables : Variables[i].Name = Variables[j].Name => i = j
    /\ \A i \in DOMAIN Variables : BaseOf(i) = sizesBefore(Variables, i)
    /\ \A i \in DOMAIN Variables :
           /\ Variables[i].Size >= 1
           /\ i = 1 => BaseOf(i) = 0
           /\ i > 1 => BaseOf(i) = BaseOf(i - 1) + Variables[i - 1].Size
    /\ \A i, j \in DOMAIN Variables :
           i < j => BaseOf(i) + Variables[i].Size <= BaseOf(j)

\* Three variables are declared, the first two of different sizes.
BasesWitness ==
    /\ err = NoErr
    /\ Len(Variables) = 3
    /\ Variables[1].Size = 2
    /\ Variables[2].Size = 1
    /\ Addresses[Variables[3].Name] = 3

Bound_(name) == name \in (DOMAIN Addresses) \cup (DOMAIN Functions)
RanDeclaration == Ran("Declaration") \/ Ran("Function")
NoSharedName == (DOMAIN Addresses) \cap (DOMAIN Functions) = {}

\* C3: a declaration of a variable or of a function fails when its name is
\* bound already, as a variable or as a function, and then leaves the
\* variable list, the address map and the function table as they were; no
\* name is ever a variable and a function at once.
OneNamespace ==
    [][ /\ RanDeclaration /\ Bound_(last'.Name) =>
               /\ Failed
               /\ Variables' = Variables
               /\ Addresses' = Addresses
               /\ Functions' = Functions
        /\ RanDeclaration /\ ~Bound_(last'.Name) => Succeeded
        /\ NoSharedName /\ NoSharedName'
      ]_vars

\* A function declaration has failed on the name of a variable, a function
\* being declared already under another name.
OneNamespaceWitness ==
    /\ last.kind = "Function"
    /\ last.Name \in DOMAIN Addresses
    /\ err = ErrFuncIsVar
    /\ DOMAIN Functions # {}

\* The step is an Execute of statement pc of the parsed program.
MainRuns(kind) == phase = "exec" /\ Ran(kind)

\* The end of main on a text: no failure on the way, and at the end the
\* stack and the cells of the first variable as given.
EndsWith(text, stack, cells) ==
    input = text =>
        /\ phase # "failed"
        /\ phase = "done" =>
               /\ Stack = stack
               /\ out = Encode(stack, FALSE)
               /\ cells # <<>> =>
                      /\ Len(Variables) = 1
                      /\ Variables[1].Name = NameX
                      /\ Variables[1].Data = cells

\* C5, as stated: VARIABLE x 3 5 x ! 3 x @ is parsed and executed without
\* an error and ends with the stack [3, 5], cell 0 of x holding 5.
StoreGetEndsWith35 == EndsWith(SrcStoreGet, <<3, 5>>, <<5>>)

\* C5: VARIABLE x 3 5 x ! 3 x @ is parsed and executed without an error and
\* ends with the stack [3, 3, 5], cell 0 of x holding 5: the 3 after x is
\* no cell count, so it is pushed back and pushed as a number.
StoreGetEndsWith335 == EndsWith(SrcStoreGet, <<3, 3, 5>>, <<5>>)

StoreGetWitness ==
    /\ input = SrcStoreGet
    /\ phase = "done"
    /\ Len(prog) = 8

\* The declarations of name among the first n statements of the program.
DeclaredIn(n, name, kind) ==
    {j \in 1..n : prog[j].kind = kind /\ prog[j].Name = name}

\* The sum of the cell counts the first n statements declare.
RECURSIVE cellsIn(_)
cellsIn(n) ==
    IF n = 0 THEN 0
    ELSE cellsIn(n - 1) + (IF prog[n].kind = "Declaration" THEN prog[n].Cells ELSE 0)

\* C9: a call of a name is resolved against the statements executed before
\* it.  When one of them declared the name as a variable, the call pushes
\* the base address of the variable, the cells counted before its
\* declaration, and leaves the cells as they are; when none of them
\* declared the name, the call fails with "cannot resolve identifier" and
\* changes nothing, whatever the statements after it declare.
CallsResolveAtExecution ==
    [][ MainRuns("IdentifierCall") =>
            LET name == prog[pc].Identifier
                asVar == DeclaredIn(pc - 1, name, "Declaration")
                asFunc == DeclaredIn(pc - 1, name, "Function")
            IN  /\ asVar # {} =>
                       /\ Succeeded
                       /\ \E j \in asVar : Stack' = Append(Stack, cellsIn(j - 1))
                       /\ Variables' = Variables
                       /\ Addresses' = Addresses
                       /\ Functions' = Functions
                /\ asVar = {} /\ asFunc = {} =>
                       /\ err' = ErrResolveIdent
                       /\ phase' = "failed"
                       /\ Stack' = Stack
                       /\ Variables' = Variables
                       /\ Addresses' = Addresses
                       /\ Functions' = Functions
      ]_vars

\* A call has failed on a name that a later statement declares.
CallsWitness ==
    /\ phase = "failed"
    /\ err = ErrResolveIdent
    /\ last.kind = "IdentifierCall"
    /\ prog[pc] = last
    /\ \E j \in (pc + 1)..Len(prog) :
           /\ prog[j].kind \in {"Declaration", "Function"}
           /\ prog[j].Name = last.Identifier

\* The machine after the statements of body, executed one after the other
\* from machine m on.
InPlace(m, body) == execProgram(m, body, 1, MaxDepth)

SameAs(r) ==
    /\ Stack' = r.Stack
    /\ Variables' = r.Variables
    /\ Addresses' = r.Addresses
    /\ Functions' = r.Functions
    /\ err' = r.err

CallsFunction ==
    /\ Ran("IdentifierCall")
    /\ last'.Identifier \in DOMAIN Functions
    /\ last'.Identifier \notin DOMAIN Addresses

\* C8: a call of a declared function leaves the stack, the cells, the
\* address map and the function table, and the error if there is one, as
\* the statements of the function's body leave them when they are executed
\* at the place of the call, on the machine the call found; the text
\* : double 2 * ; 4 double ends with the stack [8].
CallIsInlineExpansion ==
    /\ [][ CallsFunction => SameAs(InPlace(Machine, Functions[last'.Identifier].Body))
         ]_vars
    /\ [](EndsWith(SrcDouble, <<8>>, <<>>))

\* A call of a function has failed inside the body, after the body changed
\* the stack below the values the call found on top.
CallWitness ==
    /\ phase = "feed"
    /\ last.kind = "IdentifierCall"
    /\ last.Identifier \in DOMAIN Functions
    /\ Functions[last.Identifier].Body = <<Drop, Drop>>
    /\ err = ErrDropEmpty
    /\ Stack = <<>>

\* C10: IF on an empty stack fails and changes nothing; otherwise it pops
\* one value as the condition, and then a nonzero condition executes the
\* primary body and nothing else, a zero condition executes the else body
\* and nothing else when there is one, and a zero condition without an
\* else body leaves the stack as it was before the IF without the
\* condition.  1 IF 42 ELSE 99 THEN ends with [42], 0 IF 42 ELSE 99 THEN
\* with [99].
IfTakesOneBranch ==
    /\ [][ Ran("If") =>
             LET popped == [Machine EXCEPT !.Stack = Front(Stack, 1)]
             IN  /\ Depth = 0 =>
                        /\ err' = ErrIfEmpty
                        /\ UNCHANGED machineVars
                 /\ Depth >= 1 /\ Top # 0 =>
                        SameAs(InPlace(popped, last'.Body))
                 /\ Depth >= 1 /\ Top = 0 /\ last'.ElseBody # <<>> =>
                        SameAs(InPlace(popped, last'.ElseBody))
                 /\ Depth >= 1 /\ Top = 0 /\ last'.ElseBody = <<>> =>
                        /\ Succeeded
                        /\ Stack' = Front(Stack, 1)
                        /\ UNCHANGED <<Addresses, Variables, Functions>>
         ]_vars
    /\ [](EndsWith(SrcIfOne, <<42>>, <<>>))
    /\ [](EndsWith(SrcIfZero, <<99>>, <<>>))

\* An IF with both bodies has found a zero on a stack of two and left what
\* its else body pushed above the other value.
IfWitness ==
    /\ phase = "feed"
    /\ last = If(<<PushNumber(1)>>, <<PushNumber(2)>>)
    /\ err = NoErr
    /\ Stack = <<1, 2>>

NonZero(conds) == \A i \in DOMAIN conds : conds[i] # 0

\* C11: WHILE pops one value as the condition before each run of its body,
\* and fails, changing nothing, when the stack is empty then; a zero
\* condition ends the loop, a nonzero one is followed by one run of the
\* body, so that the body has run once for each nonzero condition popped
\* and the loop goes on as long as the conditions popped are nonzero; a
\* zero at the first check ends the loop with the body never run and that
\* one value popped.
WhilePopsBeforeEachRun ==
    /\ [][ phase = "check" =>
             /\ Depth = 0 =>
                    /\ err' = ErrWhileEmpty
                    /\ phase' = "feed"
                    /\ UNCHANGED <<machineVars, loop>>
             /\ Depth >= 1 =>
                    /\ Succeeded
                    /\ Stack' = Front(Stack, 1)
                    /\ loop'.conds = Append(loop.conds, Top)
                    /\ loop'.runs = loop.runs
                    /\ UNCHANGED <<Addresses, Variables, Functions>>
                    /\ Top = 0 => phase' = "feed"
                    /\ Top # 0 => phase' = "body"
         ]_vars
    /\ [][ phase = "body" =>
             /\ SameAs(InPlace(Machine, loop.body))
             /\ loop'.runs = loop.runs + 1
             /\ loop'.conds = loop.conds
             /\ Succeeded => phase' = "check"
             /\ Failed => phase' = "feed"
         ]_vars
    /\ [](phase = "check" => loop.runs = Len(loop.conds) /\ NonZero(loop.conds))
    /\ [](phase = "body" => loop.runs + 1 = Len(loop.conds) /\ NonZero(loop.conds))
    /\ [](phase = "feed" /\ ~NonZero(loop.conds) =>
              /\ loop.conds[Len(loop.conds)] = 0
              /\ NonZero(Front(loop.conds, 1))
              /\ loop.runs = Len(loop.conds) - 1)
    /\ [](phase = "feed" /\ NonZero(loop.conds) => loop.runs = Len(loop.conds))

\* A loop has ended on the third condition, a zero, after two runs of its
\* body.
WhileWitness ==
    /\ phase = "feed"
    /\ err = NoErr
    /\ last.kind = "While"
    /\ loop.runs = 2
    /\ Len(loop.conds) = 3
    /\ loop.conds[3] = 0

\* C12, as stated: a statement of any kind that fails leaves the stack, the
\* cells and the tables as they were before it.
FailureChangesNothing ==
    [][ Executing /\ Failed => UNCHANGED machineVars ]_vars

SimpleKinds ==
    {"PushNumber", "MathOperation", "CompareOperation", "Drop", "Dup", "Swap",
     "Get", "Store", "Declaration", "Function", "Quit", "Comment"}

\* The statement fails on its own test, before any statement of a body.
FailsAtOnce ==
    \/ last'.kind \in SimpleKinds
    \/ last'.kind \in {"If", "While"} /\ Depth = 0
    \/ last'.kind = "IdentifierCall" /\ ~Bound_(last'.Identifier)

\* C12: a statement that fails on its own test (a simple statement, a call
\* of an unbound name, IF or WHILE on an empty stack) leaves the stack, the
\* cells and the tables as they were before it.  IF, WHILE and a call of a
\* function that fail later keep what they did until then: an IF or a call
\* ends as its body ends, and a WHILE that fails at a check ends with an
\* empty stack.
FailureAtOnceChangesNothing ==
    [][ Executing /\ Failed =>
          /\ FailsAtOnce => UNCHANGED machineVars
          /\ Ran("If") /\ Depth >= 1 =>
                 SameAs(InPlace([Machine EXCEPT !.Stack = Front(Stack, 1)],
                                IF Top # 0 THEN last'.Body ELSE last'.ElseBody))
          /\ CallsFunction =>
                 SameAs(InPlace(Machine, Functions[last'.Identifier].Body))
          /\ Ran("While") /\ err' = ErrWhileEmpty => Stack' = <<>>
      ]_vars

\* A STORE has failed on an address that does not resolve, a variable
\* being declared, and its two operands are on the stack still.
FailureWitness ==
    /\ last.kind = "Store"
    /\ err = ErrResolveAddr
    /\ Len(Stack) = 2
    /\ Len(Variables) = 1

\* C13: a failed statement is the last step of the run: main executes
\* nothing after it and writes nothing; standard output holds the stack
\* only when the parse succeeded and every statement of the program was
\* executed without an error.  A statement that fails inside a function
\* body, an IF branch or a WHILE body, and a division or modulus by zero,
\* end the run in the same way: in the texts where a 7 follows the failing
\* statement in the same or an enclosing body, no 7 is ever pushed.
FailFast ==
    /\ [][ phase # "failed" ]_vars
    /\ [][ phase = "parse" /\ err' # NoErr => phase' = "failed" /\ prog' = <<>> ]_vars
    /\ [][ phase = "exec" /\ Executing /\ Failed =>
               phase' = "failed" /\ pc' = pc /\ out' = <<>> ]_vars
    /\ [](out # <<>> =>
              /\ phase = "done"
              /\ err = NoErr
              /\ pc = Len(prog) + 1
              /\ out = Encode(Stack, stackNil))
    /\ [](err # NoErr => phase = "failed" /\ out = <<>>)
    /\ [](input \in FailFastTexts =>
              /\ 7 \notin Range(Stack)
              /\ phase # "done"
              /\ phase = "exec" => pc <= Len(prog))

\* A run has ended on a DROP that failed inside a function called from an
\* IF branch inside a WHILE body.
FailFastWitness ==
    /\ input \in FailFastTexts
    /\ phase = "failed"
    /\ last.kind = "While"
    /\ DOMAIN Functions # {}
    /\ err = ErrDropEmpty

\* C19: when main ends without an error, standard output holds the JSON
\* array of the integers of the final stack, bottom first, and the empty
\* array when the program pushed nothing.
OutputIsJsonArray ==
    phase = "done" => out = <<"[">> \o jsonElements(Stack, 1) \o <<"]", "\n">>

\* The parse of the input has failed with error e, and no Program is
\* returned.
ParseFailedWith(e) ==
    /\ phase = "failed"
    /\ last.kind = "none"
    /\ err = e
    /\ prog = <<>>

\* The parse of the input has returned the Program sts.
ParsedAs(sts) ==
    /\ prog = sts
    /\ ~(phase = "failed" /\ last.kind = "none")

\* The parse gives st followed by the statements of the text rest, or
\* fails as the parse of rest does.
ParsedAsThen(st, rest) ==
    LET r == Parse(rest)
    IN  IF r.err # NoErr THEN ParseFailedWith(r.err)
        ELSE ParsedAs(<<st>> \o r.prog)

IsNumberText(a) == a \in {<<"3", " ">>, <<"0", " ">>}
NumberOf(a) == Atoi(Front(a, 1)).n

\* C14: after VARIABLE x, a NUMBER and CELLS are consumed and the number is
\* the cell count, a number <= 0 being the parse error "array cannot have
\* less than 1 cell"; with any other two tokens after it (or fewer) the
\* cell count is 1 and these tokens are parsed next, in their order, as
\* the text after the declaration is parsed by itself.
DeclarationLookahead ==
    phase # "parse" =>
        \A a \in TailToks, b \in TailToks, c \in {<<>>, <<"5", " ">>} :
            input = SrcVarX \o a \o b \o c =>
                IF IsNumberText(a) /\ b = <<"C", "E", "L", "L", "S", " ">>
                THEN IF NumberOf(a) <= 0 THEN ParseFailedWith(ErrArrayCells)
                     ELSE ParsedAsThen(Declaration(NameX, NumberOf(a)), c)
                ELSE ParsedAsThen(Declaration(NameX, 1), a \o b \o c)

\* VARIABLE x 3 5 has been parsed: x with one cell, then the two pushes.
DeclarationLookaheadWitness ==
    /\ input = SrcVarX \o <<"3", " ", "5", " ">>
    /\ phase = "exec"
    /\ prog = <<Declaration(NameX, 1), PushNumber(3), PushNumber(5)>>

\* C15: a token that starts no CommonStmt and does not end or continue the
\* construct it stands in (VARIABLE and ":" in a function body, an IF
\* branch or a WHILE body; ";", THEN, ELSE, REPEAT, CELLS or an illegal
\* character at top level; the end of the text inside a body) ends the
\* parse with the error naming it, a second ELSE with "already in else",
\* and a failed parse returns no Program.
NoTokenSkipped ==
    /\ phase # "parse" =>
            \A c \in Contexts, t \in Others :
                (input = c.text \o t.text /\ t.tok \notin c.ends) =>
                    IF t.tok = "Else" /\ c.ends = {"Then"}
                    THEN ParseFailedWith(ErrAlreadyInElse)
                    ELSE ParseFailedWith(ErrInvalidToken \o t.tok)
    /\ (phase = "failed" /\ last.kind = "none") =>
            (prog = <<>> /\ out = <<>> /\ Stack = <<>>)

\* Parses that failed on a VARIABLE inside a function body and on a ";"
\* at top level.
NoTokenSkippedWitness ==
    /\ phase = "failed"
    /\ last.kind = "none"
    /\ \/ /\ err = ErrInvalidToken \o "Variable"
          /\ \E t \in Others : input = <<":", " ", "y", " ", "1", " ">> \o t.text
       \/ /\ err = ErrInvalidToken \o "EndFunc"
          /\ \E t \in Others : input = t.text

\* C16: the statements between IF and the first ELSE are the primary body
\* and those after it the else body; THEN ends the IF in either body; a
\* second ELSE is the parse error "already in else", also when no
\* statement stands between the two.
IfElseThen ==
    phase # "parse" =>
        \A a \in BranchTexts :
            /\ input = SrcIf \o a.text \o SrcThen
                    => ParsedAs(<<PushNumber(0), If(a.sts, <<>>)>>)
            /\ \A b \in BranchTexts :
                /\ input = SrcIf \o a.text \o SrcElse \o b.text \o SrcThen
                        => ParsedAs(<<PushNumber(0), If(a.sts, b.sts)>>)
                /\ \A c \in BranchTexts :
                        input = SrcIf \o a.text \o SrcElse \o b.text
                                    \o SrcElse \o c.text \o SrcThen
                            => ParseFailedWith(ErrAlreadyInElse)

\* 0 IF 1 ELSE ELSE THEN has failed to parse with "already in else".
IfElseThenWitness ==
    /\ input = SrcIf \o <<"1", " ">> \o SrcElse \o SrcElse \o SrcThen
    /\ phase = "failed"
    /\ err = ErrAlreadyInElse

\* A body, or a program, with its QUIT statements taken out, at every
\* depth.
RECURSIVE withoutQuit(_)
withoutQuit(sts) ==
    IF sts = <<>> THEN <<>>
    ELSE Only({ withoutQuit(Front(sts, 1)) \o
                (CASE st.kind = "Quit" -> <<>>
                   [] st.kind = "If" ->
                          <<If(withoutQuit(st.Body), withoutQuit(st.ElseBody))>>
                   [] st.kind = "While" -> <<While(withoutQuit(st.Body))>>
                   [] st.kind = "Function" ->
                          <<FunctionDecl(st.Name, withoutQuit(st.Body))>>
                   [] OTHER -> <<st>>)
                : st \in {sts[Len(sts)]} })

\* The statements of prog that main has executed, the failed one included.
Executed == SubSeq(prog, 1, IF phase = "failed" THEN pc ELSE pc - 1)

\* The machine is the one the executed statements without their QUITs
\* give (the function table apart, whose bodies hold the QUITs).
AsWithoutQuit ==
    \A ref \in {execProgram(NewMachine, withoutQuit(Executed), 1, MaxDepth)} :
        /\ Stack = ref.Stack
        /\ Variables = ref.Variables
        /\ Addresses = ref.Addresses
        /\ DOMAIN Functions = DOMAIN ref.Functions
        /\ err = ref.err

\* C17: QUIT never fails and changes neither the stack nor a cell nor a
\* table, and the statements after it run as if it were not there: in the
\* program, in a function body, in an IF branch and in a WHILE body.
QuitIsNoOp ==
    /\ [][ MainRuns("Quit") =>
               /\ Succeeded
               /\ UNCHANGED machineVars
               /\ pc' = pc + 1
               /\ phase' = "exec" ]_vars
    /\ [](phase \in {"exec", "done"} \/ (phase = "failed" /\ last.kind # "none")
             => AsWithoutQuit)

\* The run on the text with QUIT in an IF in a WHILE in a function has
\* ended, every 7 pushed.
QuitWitness ==
    /\ input = SrcQuitNested
    /\ phase = "done"
    /\ Stack = <<7, 7, 7>>

\* debug var and a blank
DebugVar == <<"d", "e", "b", "u", "g", " ", "v", "a", "r", " ">>

\* body is "debug var <name>", alone or with a blank and more after it.
DebugVarOf(body, name) ==
    /\ Len(body) >= Len(DebugVar) + Len(name)
    /\ SubSeq(body, 1, Len(DebugVar) + Len(name)) = DebugVar \o name
    /\ " " \notin Range(name)
    /\ \/ Len(body) = Len(DebugVar) + Len(name)
       \/ body[Len(DebugVar) + Len(name) + 1] = " "

NamesUndeclared(body) ==
    \E k \in 0..(Len(body) - Len(DebugVar)) :
        \E name \in {SubSeq(body, Len(DebugVar) + 1, Len(DebugVar) + k)} :
            /\ DebugVarOf(body, name)
            /\ name \notin DOMAIN Addresses

\* C18: a Comment, whatever its body, leaves the stack, the cells and the
\* tables as they are; it fails exactly when its body is "debug var
\* <name>" with a name that no variable has.
CommentChangesNothing ==
    [][ Ran("Comment") =>
            /\ UNCHANGED machineVars
            /\ Failed <=> NamesUndeclared(last'.Body)
            /\ Failed => err' = ErrInvalidVariable ]_vars

\* With x declared and a value on the stack, (debug var x) has run and
\* not failed.
CommentWitness ==
    /\ last = Comment(DebugVar \o NameX)
    /\ NameX \in DOMAIN Addresses
    /\ Stack # <<>>
    /\ err = NoErr

\* The token of StreamText at place i, counted from 0: the number i, and
\* EOF after the last number.
ReaderToken(i) ==
    IF i < MaxTokens THEN [tok |-> "Number", lit |-> natToString(i)]
    ELSE [tok |-> "EOF", lit |-> <<>>]

\* C20: scan returns the tokens of the text in order, the whitespace left
\* out; with tokens pushed back (never more than were read, nor more than
\* BufSize - 1) it returns the oldest of them again without reading the
\* scanner, so that k unscans and k scans give the same k tokens in their
\* order, also where the ring goes round, and the scan after them gives
\* the next new token; unscan reads nothing and records nothing.
PushbackReader ==
    [][ /\ (reader'.op = "scan" /\ reader' # reader) =>
               /\ reader'.got = ReaderToken(reader.read - reader.pending)
               /\ reader.pending > 0 =>
                      /\ reader'.p.s = reader.p.s
                      /\ reader'.p.buf = reader.p.buf
               /\ (reader.pending = 0 /\ reader.read < MaxTokens) =>
                      reader'.p.s # reader.p.s
        /\ (reader'.op = "unscan" /\ reader' # reader) =>
               /\ reader'.p.s = reader.p.s
               /\ reader'.p.buf = reader.p.buf ]_vars

\* One token more than buf has slots was read, three were pushed back
\* across slot 0, and the second scan after them has returned the token
\* of the last slot.
PushbackWitness ==
    /\ reader.op = "scan"
    /\ reader.read = BufSize + 1
    /\ reader.pending = 1
    /\ reader.p.actual = 0
    /\ reader.got = ReaderToken(BufSize - 1)

\* The statement, or a statement of its bodies or of the body of a function
\* it calls, is a STORE; d bounds the calls followed.
RECURSIVE hasStore(_, _)
hasStore(st, d) ==
    CASE st.kind = "Store" -> TRUE
      [] st.kind = "If" ->
             \E b \in Range(st.Body) \cup Range(st.ElseBody) : hasStore(b, d)
      [] st.kind = "While" -> \E b \in Range(st.Body) : hasStore(b, d)
      [] st.kind = "IdentifierCall" ->
             /\ d > 0
             /\ st.Identifier \in DOMAIN Functions
             /\ \E b \in Range(Functions[st.Identifier].Body) : hasStore(b, d - 1)
      [] OTHER -> FALSE

\* The cells of the variables declared before the step are as they were.
SameCells == \A i \in DOMAIN Variables : Variables'[i].Data = Variables[i].Data

\* C21: a step keeps every variable it finds, in its place in the list,
\* with its name, its cell count and its base address, and adds variables
\* at the end only; the cells of a variable change only in a step that
\* executes a STORE, which at top level is a STORE that succeeds.
AddressSpaceOnlyGrows ==
    [][ /\ Len(Variables') >= Len(Variables)
        /\ \A i \in DOMAIN Variables :
               /\ Variables'[i].Name = Variables[i].Name
               /\ Variables'[i].Size = Variables[i].Size
               /\ Len(Variables'[i].Data) = Variables[i].Size
        /\ \A name \in DOMAIN Addresses :
               /\ name \in DOMAIN Addresses'
               /\ Addresses'[name] = Addresses[name]
        /\ ~SameCells => hasStore(last', MaxDepth)
        /\ (~SameCells /\ Ran("Store")) => Succeeded
        /\ Len(Variables') > Len(Variables) =>
               (Ran("Declaration") /\ Succeeded /\ SameCells) ]_vars

\* x and y are declared, y after x, and a STORE has changed a cell of y.
AddressSpaceWitness ==
    /\ Len(Variables) = 2
    /\ Variables[1].Name = NameX
    /\ Variables[2].Name = NameY
    /\ Addresses[NameY] = Variables[1].Size
    /\ \E v \in Range(Variables[2].Data) : v # 0
    /\ last.kind \in {"Store", "IdentifierCall", "If", "While"}

\* The value GET pushes for address addr on machine m.
GetAt(m, addr) == get([m EXCEPT !.Stack = <<addr>>], Get).Stack

\* C22 as claimed: in every state two different addresses that both
\* resolve denote different cells, so a STORE to one of them that succeeds
\* leaves the value a GET of the other pushes as it was.
ResolutionInjective ==
    \A a \in ProbeAddrs, b \in ProbeAddrs :
        (a # b /\ resolveAddr(Machine, a).ok /\ resolveAddr(Machine, b).ok) =>
            /\ <<resolveAddr(Machine, a).v, resolveAddr(Machine, a).idx>>
                   # <<resolveAddr(Machine, b).v, resolveAddr(Machine, b).idx>>
            /\ \A val \in Lits :
                   \A r \in {store([Machine EXCEPT !.Stack = <<val, a>>], Store)} :
                       r.err = NoErr => GetAt(r, b) = GetAt(Machine, b)

====
